---- MODULE Spec2Model ----
(***************************************************************************)
(* Model of the OpenID 2.0 relying party of oof-software/openid-2.0:       *)
(* the nonce registry (src/util/nonce.rs), the Steam login handlers        *)
(* (src/api/auth/steam.rs), assertion validation (src/openid/response.rs)  *)
(* the re-verification response parser (src/openid/validate.rs), the       *)
(* redirect URL (src/openid/params.rs), provider discovery                 *)
(* (src/openid/provider.rs, xml.rs, xml_util.rs) and the key-value form    *)
(* codec (src/openid/util/key_values.rs, key_values/de.rs).                *)
(*                                                                         *)
(* The specifications share the variables:                                 *)
(*   Spec           the HTTP handlers running concurrently over the shared *)
(*                  registry and the session store;                        *)
(*   SpecSequential the same handlers, one request at a time;              *)
(*   SpecRegistry   the NonceSet API called directly in any order;         *)
(*   SpecRace       two threads inside NonceSet::replace and               *)
(*                  validate_and_remove at the same time;                  *)
(*   SpecAssertion  PositiveAssertion::validate and validate_steam applied *)
(*                  to one assertion;                                      *)
(*   SpecUrl        make_auth_req_url applied to one realm and return_to;  *)
(*   SpecForged     SpecSequential with callbacks whose return_to carries  *)
(*                  another nonce than their query;                        *)
(*   SpecDiscovery  Provider::from_xml and parse_xml applied to one        *)
(*                  document;                                              *)
(*   SpecKeyValues  the key-value decoders applied to one text, drawn or   *)
(*                  encoded from a drawn map;                              *)
(*   SpecCommaSeparated  the comma-separated list codecs                   *)
(*                  (src/openid/comma_separated.rs and src/openid/util)    *)
(*                  applied to one drawn list;                             *)
(*   SpecVerifyResponse  parse_key_value_form applied to one body of the   *)
(*                  provider's re-verification response.                   *)
(***************************************************************************)

EXTENDS Integers, Sequences, FiniteSets, TLC

(***************************************************************************)
(* Bounds and program constants                                            *)
(***************************************************************************)

\* Number of distinct texts Nonce::random() can produce in one run.
MaxNonces == 2

\* Number of requests the server receives in one run.
MaxRequests == 4

\* src/util/nonce.rs:30 (milliseconds)
NONCE_MAX_AGE_MS == 5000000

\* src/openid/nonce.rs:12 (milliseconds), the response nonce's max age
RESPONSE_NONCE_MAX_AGE_MS == 30000

\* The texts Nonce::random() can return.  Text 0 is a text that is never
\* generated; a client's custom_nonce is a generated text or text 0, which
\* stands for every text the registry has not produced.
NonceText == 1..MaxNonces
QueryNonce == 0..MaxNonces

\* Readings of Utc::now().timestamp_millis() the model distinguishes.
Instants == {0, 5000001}

VARIABLES
    served,     \* history: the number of requests received so far
    nonces,     \* NonceSet.inner: text -> Metadata.time
    generated,  \* texts Nonce::random() has returned so far
    now,        \* the wall clock, in ms
    session,    \* the session store: session key -> Option<SteamAuthState>
    req,        \* the request handlers in flight
    calls,      \* history: per text, how often validate_and_remove returned Ok
    last        \* history: the last direct registry call and its result

vars == <<served, nonces, generated, now, session, req, calls, last>>

(***************************************************************************)
(* src/util/nonce.rs: NonceSet                                             *)
(***************************************************************************)

EmptyMap == [x \in {} |-> 0]

\* HashMap::insert
MapInsert(map, k, v) == [x \in (DOMAIN map) \cup {k} |-> IF x = k THEN v ELSE map[x]]

\* HashMap::remove (the map afterwards)
MapRemove(map, k) == [x \in (DOMAIN map) \ {k} |-> map[x]]

\* Metadata::is_expired
is_expired(time, t) == t - time > NONCE_MAX_AGE_MS

\* Nonce::random: 36 random bytes; a repeated text is treated as impossible
\* (see the module documentation of src/util/nonce.rs).
random == NonceText \ generated

\* The texts a caller can present: the ones generated so far, and text 0.
Texts == generated \cup {0}

\* NonceSet::insert_new
insert_new(map, new, t) ==
    [map |-> MapInsert(map, new, t), nonce |-> new]

\* validate_and_remove with a lookup in place of the removal
validate_and_remove_lookup_only(map, nonce, t) ==
    IF nonce \notin DOMAIN map
    THEN [res |-> "Invalid", map |-> map]
    ELSE IF is_expired(map[nonce], t)
         THEN [res |-> "Expired", map |-> map]
         ELSE [res |-> "Ok", map |-> map]

\* validate_and_remove that drops the entry only when it has expired
validate_and_remove_expired_only(map, nonce, t) ==
    IF nonce \notin DOMAIN map
    THEN [res |-> "Invalid", map |-> map]
    ELSE IF is_expired(map[nonce], t)
         THEN [res |-> "Expired", map |-> MapRemove(map, nonce)]
         ELSE [res |-> "Ok", map |-> map]

\* NonceSet::validate_and_remove
validate_and_remove(map, nonce, t) ==
    IF nonce \notin DOMAIN map
    THEN [res |-> "Invalid", map |-> map]
    ELSE IF is_expired(map[nonce], t)
         THEN [res |-> "Expired", map |-> MapRemove(map, nonce)]
         ELSE [res |-> "Ok", map |-> MapRemove(map, nonce)]

\* NonceSet::validate
validate_nonce(map, nonce) ==
    IF nonce \in DOMAIN map THEN "Ok" ELSE "Expired"

\* replace that looks the old nonce up and leaves it in the map
replace_keep_old(map, old, new, t) ==
    IF old \notin DOMAIN map
    THEN [res |-> "Invalid", map |-> map, nonce |-> 0]
    ELSE [res |-> "Ok", map |-> MapInsert(map, new, t), nonce |-> new]

\* replace that inserts the new nonce before it looks for the old one
replace_insert_first(map, old, new, t) ==
    IF old \notin DOMAIN map
    THEN [res |-> "Invalid", map |-> MapInsert(map, new, t), nonce |-> 0]
    ELSE [res |-> "Ok", map |-> MapInsert(MapRemove(map, old), new, t), nonce |-> new]

\* NonceSet::replace
replace(map, old, new, t) ==
    IF old \notin DOMAIN map
    THEN [res |-> "Invalid", map |-> map, nonce |-> 0]
    ELSE [res |-> "Ok", map |-> MapInsert(MapRemove(map, old), new, t), nonce |-> new]

\* remove_expired_nonces with the retain predicate inverted
remove_unexpired_nonces(map, t) ==
    [x \in {y \in DOMAIN map : is_expired(map[y], t)} |-> map[x]]

\* NonceSet::remove_expired_nonces
remove_expired_nonces(map, t) ==
    [x \in {y \in DOMAIN map : ~is_expired(map[y], t)} |-> map[x]]

\* history of validate_and_remove: the calls that returned Ok, per text
NoCalls == [n \in QueryNonce |-> 0]
Record(c, n, res) == IF res = "Ok" THEN [c EXCEPT ![n] = @ + 1] ELSE c

(***************************************************************************)
(* Text.  A string is a sequence of tokens; the tokens that matter to the  *)
(* parsers (':' and newline, the identity prefix, decimal digits) are      *)
(* tokens of their own.                                                    *)
(***************************************************************************)

\* src/openid/constants.rs:12
OPENID_AUTH_NAMESPACE == <<"http", ":", "//specs.openid.net/auth/2.0">>

\* src/openid/constants.rs:51
OPENID_MODE_IDENTIFIER_RESPONSE == <<"id_res">>

\* src/openid/constants.rs:54
OPENID_MODE_CHECK_AUTHENTICATION == <<"check_authentication">>

\* src/openid/constants.rs:129
OPENID_FIELD_PREFIX == "openid."

\* src/openid/response.rs:129
STEAM_IDENTITY_PREFIX == "https://steamcommunity.com/openid/id/"

\* The endpoint of the discovered provider (Provider.service.endpoint).
ProviderEndpoint == <<"https", ":", "//steamcommunity.com/openid/login">>

\* str::strip_prefix for a one-token prefix: <<TRUE, rest>> or <<FALSE, <<>>>>
strip_prefix(s, prefix) ==
    IF Len(s) > 0 /\ s[1] = prefix THEN <<TRUE, Tail(s)>> ELSE <<FALSE, <<>>>>

Digits == {"0", "5", "7", "8"}
DigitVal(d) == CASE d = "0" -> 0 [] d = "5" -> 5 [] d = "7" -> 7 [] d = "8" -> 8

RECURSIVE DecimalValue(_)
DecimalValue(s) ==
    IF s = <<>> THEN 0 ELSE 10 * DecimalValue(SubSeq(s, 1, Len(s) - 1)) + DigitVal(s[Len(s)])

\* str::parse::<u64>: <<TRUE, value>> or <<FALSE, 0>>; one leading "+" is read over
parse_u64(s) ==
    LET d == IF Len(s) > 0 /\ s[1] = "+" THEN Tail(s) ELSE s
    IN  IF Len(d) > 0 /\ \A i \in 1..Len(d) : d[i] \in Digits
        THEN <<TRUE, DecimalValue(d)>>
        ELSE <<FALSE, 0>>

(***************************************************************************)
(* src/openid/response.rs: PositiveAssertion                               *)
(***************************************************************************)

\* EXPECTED_SIGNED_FIELDS, each with its "openid." prefix
EXPECTED_SIGNED_FIELDS ==
    << <<OPENID_FIELD_PREFIX, "op_endpoint">>, <<OPENID_FIELD_PREFIX, "return_to">>,
       <<OPENID_FIELD_PREFIX, "response_nonce">>, <<OPENID_FIELD_PREFIX, "assoc_handle">>,
       <<OPENID_FIELD_PREFIX, "claimed_id">>, <<OPENID_FIELD_PREFIX, "identity">> >>

\* validate::has_fields::eq
field_eq(actual, expected) ==
    LET e == strip_prefix(expected, OPENID_FIELD_PREFIX)
    IN  e[1] /\ actual = e[2]

\* has_fields with `any` in place of `all` over the expected names
has_fields_any(actual, expected) ==
    \E i \in 1..Len(expected) : \E j \in 1..Len(actual) : field_eq(actual[j], expected[i])

\* validate::has_fields
has_fields(actual, expected) ==
    \A i \in 1..Len(expected) : \E j \in 1..Len(actual) : field_eq(actual[j], expected[i])

\* validate that accepts any provider endpoint
validate_any_endpoint(a, endpoint) ==
    IF a.namespace # OPENID_AUTH_NAMESPACE THEN "invalid value for openid namespace"
    ELSE IF a.mode # OPENID_MODE_IDENTIFIER_RESPONSE THEN "invalid mode"
    ELSE IF a.claimed_id # a.identity THEN "claimed identity doesn't match identity"
    ELSE IF ~has_fields(a.signed_fields, EXPECTED_SIGNED_FIELDS)
         THEN "fields that should be signed aren't signed"
    ELSE IF a.signature = <<>> THEN "signature field is empty"
    ELSE "Ok"

\* validate without the claimed_id = identity check
validate_without_identity_check(a, endpoint) ==
    IF a.namespace # OPENID_AUTH_NAMESPACE THEN "invalid value for openid namespace"
    ELSE IF a.mode # OPENID_MODE_IDENTIFIER_RESPONSE THEN "invalid mode"
    ELSE IF a.service_endpoint # endpoint THEN "provider endpoint doesn't match"
    ELSE IF ~has_fields(a.signed_fields, EXPECTED_SIGNED_FIELDS)
         THEN "fields that should be signed aren't signed"
    ELSE IF a.signature = <<>> THEN "signature field is empty"
    ELSE "Ok"

\* validate with the signature checked first
validate_signature_first(a, endpoint) ==
    IF a.signature = <<>> THEN "signature field is empty"
    ELSE IF a.namespace # OPENID_AUTH_NAMESPACE THEN "invalid value for openid namespace"
    ELSE IF a.mode # OPENID_MODE_IDENTIFIER_RESPONSE THEN "invalid mode"
    ELSE IF a.service_endpoint # endpoint THEN "provider endpoint doesn't match"
    ELSE IF a.claimed_id # a.identity THEN "claimed identity doesn't match identity"
    ELSE IF ~has_fields(a.signed_fields, EXPECTED_SIGNED_FIELDS)
         THEN "fields that should be signed aren't signed"
    ELSE "Ok"

\* PositiveAssertion::validate (generic validation): "Ok" or the first error
validate(a, endpoint) ==
    IF a.namespace # OPENID_AUTH_NAMESPACE THEN "invalid value for openid namespace"
    ELSE IF a.mode # OPENID_MODE_IDENTIFIER_RESPONSE THEN "invalid mode"
    ELSE IF a.service_endpoint # endpoint THEN "provider endpoint doesn't match"
    ELSE IF a.claimed_id # a.identity THEN "claimed identity doesn't match identity"
    ELSE IF ~has_fields(a.signed_fields, EXPECTED_SIGNED_FIELDS)
         THEN "fields that should be signed aren't signed"
    ELSE IF a.signature = <<>> THEN "signature field is empty"
    ELSE "Ok"

\* Nonce::is_expired with >= in place of >
response_nonce_is_expired_inclusive(time, t) == t - time >= RESPONSE_NONCE_MAX_AGE_MS

\* openid::nonce::Nonce::is_expired (the response nonce)
response_nonce_is_expired(time, t) == t - time > RESPONSE_NONCE_MAX_AGE_MS

\* validate_steam that does not compare the two ids
validate_steam_ids_unmatched(a, t) ==
    LET c  == strip_prefix(a.claimed_id, STEAM_IDENTITY_PREFIX)
        i  == strip_prefix(a.identity, STEAM_IDENTITY_PREFIX)
        cn == parse_u64(c[2])
        idn == parse_u64(i[2])
    IN  IF ~c[1] THEN "claimed identity is not for a steam id"
        ELSE IF ~cn[1] THEN "claimed identity cannot represent a steam id"
        ELSE IF ~i[1] THEN "identity is not for a steam id"
        ELSE IF ~idn[1] THEN "identity cannot represent a steam id"
        ELSE IF response_nonce_is_expired(a.nonce, t) THEN "too old"
        ELSE "Ok"

\* PositiveAssertion::validate_steam: "Ok" or the first error
validate_steam(a, t) ==
    LET c  == strip_prefix(a.claimed_id, STEAM_IDENTITY_PREFIX)
        i  == strip_prefix(a.identity, STEAM_IDENTITY_PREFIX)
        cn == parse_u64(c[2])
        idn == parse_u64(i[2])
    IN  IF ~c[1] THEN "claimed identity is not for a steam id"
        ELSE IF ~cn[1] THEN "claimed identity cannot represent a steam id"
        ELSE IF ~i[1] THEN "identity is not for a steam id"
        ELSE IF ~idn[1] THEN "identity cannot represent a steam id"
        ELSE IF cn[2] # idn[2] THEN "claimed id doesn't match identity"
        ELSE IF response_nonce_is_expired(a.nonce, t) THEN "too old"
        ELSE "Ok"

\* set_mode without the clear(): the new mode is appended to the old one
set_mode_without_clear(a, mode) == [a EXCEPT !.mode = @ \o mode]

\* PositiveAssertion::set_mode on a clone
set_mode(a, mode) == [a EXCEPT !.mode = mode]

(***************************************************************************)
(* src/openid/validate.rs: the provider's answer to check_authentication   *)
(***************************************************************************)

Whitespace == {" ", "\n"}

\* str::trim
RECURSIVE trim_start(_)
trim_start(s) == IF s # <<>> /\ s[1] \in Whitespace THEN trim_start(Tail(s)) ELSE s

RECURSIVE trim_end(_)
trim_end(s) ==
    IF s # <<>> /\ s[Len(s)] \in Whitespace THEN trim_end(SubSeq(s, 1, Len(s) - 1)) ELSE s

trim(s) == trim_end(trim_start(s))

\* index of the first occurrence of token c in s, 0 if there is none
RECURSIVE find_from(_, _, _)
find_from(s, c, i) ==
    IF i > Len(s) THEN 0 ELSE IF s[i] = c THEN i ELSE find_from(s, c, i + 1)

\* str::split(c): the pieces between the occurrences of c (at least one piece)
RECURSIVE split(_, _)
split(s, c) ==
    LET i == find_from(s, c, 1)
    IN  IF i = 0 THEN <<s>>
        ELSE <<SubSeq(s, 1, i - 1)>> \o split(SubSeq(s, i + 1, Len(s)), c)

\* str::split_once(c): <<TRUE, before, after>> or <<FALSE, <<>>, <<>>>>
split_once(s, c) ==
    LET i == find_from(s, c, 1)
    IN  IF i = 0 THEN <<FALSE, <<>>, <<>>>>
        ELSE <<TRUE, SubSeq(s, 1, i - 1), SubSeq(s, i + 1, Len(s))>>

\* VerifyResponse::default
VerifyResponseDefault == [ok |-> TRUE, namespace |-> <<>>, is_valid |-> FALSE]
VerifyResponseError == [ok |-> FALSE, namespace |-> <<>>, is_valid |-> FALSE]

\* the loop of parse_key_value_form over the pairs, from pair i on
RECURSIVE parse_pairs(_, _, _)
parse_pairs(pairs, i, response) ==
    IF i > Len(pairs) THEN response
    ELSE LET k == pairs[i][2]
             v == pairs[i][3]
         IN  IF k = <<"ns">>
             THEN IF v # OPENID_AUTH_NAMESPACE THEN VerifyResponseError
                  ELSE parse_pairs(pairs, i + 1,
                                   [response EXCEPT !.namespace = OPENID_AUTH_NAMESPACE])
             ELSE IF k = <<"is_valid">>
             THEN IF v = <<"true">>
                  THEN parse_pairs(pairs, i + 1, [response EXCEPT !.is_valid = TRUE])
                  ELSE IF v = <<"false">>
                  THEN parse_pairs(pairs, i + 1, [response EXCEPT !.is_valid = FALSE])
                  ELSE VerifyResponseError
             ELSE VerifyResponseError

\* parse_key_value_form that starts from is_valid = true
parse_key_value_form_default_valid(text) ==
    LET lines == split(trim(text), "\n")
        pairs == [i \in 1..Len(lines) |-> split_once(lines[i], ":")]
    IN  IF \E i \in 1..Len(pairs) : ~pairs[i][1]
        THEN VerifyResponseError
        ELSE parse_pairs(pairs, 1, [VerifyResponseDefault EXCEPT !.is_valid = TRUE])

\* parse_key_value_form
parse_key_value_form(text) ==
    LET lines == split(trim(text), "\n")
        pairs == [i \in 1..Len(lines) |-> split_once(lines[i], ":")]
    IN  IF \E i \in 1..Len(pairs) : ~pairs[i][1]
        THEN VerifyResponseError
        ELSE parse_pairs(pairs, 1, VerifyResponseDefault)

\* What the POST of verify_against_provider can come back with: a transport
\* failure, or a body.
BodyValid == <<"ns", ":">> \o OPENID_AUTH_NAMESPACE \o <<"\n", "is_valid", ":", "true", "\n">>
BodyInvalid == <<"ns", ":">> \o OPENID_AUTH_NAMESPACE \o <<"\n", "is_valid", ":", "false", "\n">>
BodyGarbage == <<"<html>", "\n">>
TransportFailure == <<"transport failure">>
ProviderAnswers == {BodyValid, BodyInvalid, BodyGarbage, TransportFailure}

\* verify_against_provider: the POST's outcome, parsed
verify_against_provider(answer) ==
    IF answer = TransportFailure THEN VerifyResponseError
    ELSE parse_key_value_form(answer)

(***************************************************************************)
(* src/main.rs and src/openid/params.rs: the authentication request URL    *)
(***************************************************************************)

\* src/main.rs:90 and 91, parsed by reqwest::Url::parse: scheme(), host_str()
\* (the name alone, "" when the url has none), port and path
REALM == [scheme |-> "http", host |-> "localhost", port |-> "8080", path |-> "/"]
RETURN_TO ==
    [scheme |-> "http", host |-> "localhost", port |-> "8080", path |-> "/api/auth/steam/callback"]

NoUrl == [scheme |-> "", host |-> "", port |-> "", path |-> "", custom_nonce |-> 0]

\* reqwest::Url::parse_with_params(RETURN_TO, [("custom_nonce", nonce)])
with_custom_nonce(url, nonce) ==
    [scheme |-> url.scheme, host |-> url.host, port |-> url.port, path |-> url.path,
     custom_nonce |-> nonce]

\* the error of make_auth_req_url
UrlError == [ok |-> FALSE, url |-> <<>>, realm |-> NoUrl, return_to |-> NoUrl]

\* make_auth_req_url: the redirect target, or an error.  realm_host is read
\* from return_to, as in the source (src lines 68-73).
make_auth_req_url(endpoint, realm, return_to) ==
    LET return_to_host == return_to.host
        realm_host == return_to.host
    IN  IF return_to_host = "" THEN UrlError
        ELSE IF realm_host = "" THEN UrlError
        ELSE IF return_to_host # realm_host THEN UrlError
        ELSE IF return_to.scheme # realm.scheme THEN UrlError
        ELSE [ok |-> TRUE, url |-> endpoint,
              realm |-> with_custom_nonce(realm, 0), return_to |-> return_to]

\* auth_url_with_nonce that leaves the nonce out of return_to
auth_url_without_nonce(nonce) ==
    make_auth_req_url(ProviderEndpoint, REALM, with_custom_nonce(RETURN_TO, 0))

\* SteamState::auth_url_with_nonce
auth_url_with_nonce(nonce) ==
    make_auth_req_url(ProviderEndpoint, REALM, with_custom_nonce(RETURN_TO, nonce))

\* a redirect to a fixed path of this server
LocalRedirect(path) == [ok |-> TRUE, url |-> <<path>>, realm |-> NoUrl, return_to |-> NoUrl]
NoLocation == [ok |-> TRUE, url |-> <<>>, realm |-> NoUrl, return_to |-> NoUrl]

(***************************************************************************)
(* src/api/auth/steam.rs: the session and the handlers                     *)
(***************************************************************************)

Sessions == {"s1"}
Handlers == {"h1", "h2"}

\* Option<SteamAuthState>
Anonymous == [tag |-> "Anonymous", nonce |-> 0, id |-> 0]
Redirected(n) == [tag |-> "Redirected", nonce |-> n, id |-> 0]
Authenticated(i) == [tag |-> "Authenticated", nonce |-> 0, id |-> i]

\* The assertions a callback can carry: the genuine one, issued `age` ms
\* before the request, and the ones that deviate from it in one field.
Genuine(t) ==
    [namespace |-> OPENID_AUTH_NAMESPACE,
     mode |-> OPENID_MODE_IDENTIFIER_RESPONSE,
     service_endpoint |-> ProviderEndpoint,
     claimed_id |-> <<STEAM_IDENTITY_PREFIX, "7">>,
     identity |-> <<STEAM_IDENTITY_PREFIX, "7">>,
     return_to |-> with_custom_nonce(RETURN_TO, 0),
     nonce |-> t,
     signed_fields |-> << <<"signed">>, <<"op_endpoint">>, <<"claimed_id">>, <<"identity">>,
                          <<"return_to">>, <<"response_nonce">>, <<"assoc_handle">> >>,
     signature |-> <<"SPaIMgwuYCQ2zVlgYmbSAKfD8Ps=">>]

NoAssertion ==
    [namespace |-> <<>>, mode |-> <<>>, service_endpoint |-> <<>>, claimed_id |-> <<>>,
     identity |-> <<>>, return_to |-> NoUrl, nonce |-> 0, signed_fields |-> <<>>,
     signature |-> <<>>]

Assertions(t) ==
    { Genuine(t - 10000),
      Genuine(t - 40000),
      [Genuine(t - 10000) EXCEPT !.identity = <<STEAM_IDENTITY_PREFIX, "0", "7">>] }

Idle ==
    [pc |-> "idle", kind |-> "none", sess |-> "s1", state |-> Anonymous, status |-> "Unchanged",
     custom_nonce |-> 0, assertion |-> NoAssertion,
     nonce_res |-> "none", steam_id |-> 0, generic |-> "none", specific |-> "none",
     posted |-> NoAssertion, verify |-> "none", http |-> 0, location |-> NoLocation,
     profile |-> "none"]

\* no direct registry call yet
NoCall ==
    [op |-> "none", arg |-> 0, res |-> "none", nonce |-> 0, before |-> EmptyMap, at |-> 0,
     again |-> FALSE, tried |-> {}]

\* one handler's step: the other handlers stay as they are
Step(h, r) == req' = [req EXCEPT ![h] = r]

\* the handler answers: what remains is the session middleware's commit
Respond(r, http, location) == [r EXCEPT !.pc = "respond", !.http = http, !.location = location]

Init ==
    /\ served = 0
    /\ nonces = EmptyMap
    /\ generated = {}
    /\ now = 0
    /\ session = [s \in Sessions |-> Anonymous]
    /\ req = [h \in Handlers |-> Idle]
    /\ calls = NoCalls
    /\ last = NoCall

\* Utc::now() moves on
Tick ==
    /\ \E t \in Instants : t > now /\ now' = t
    /\ UNCHANGED <<served, nonces, generated, session, req, calls, last>>

\* SessionMiddleware: a request arrives and its session is loaded from the store
Arrive(h, kind, s, q, a) ==
    /\ req[h].pc = "idle"
    /\ served < MaxRequests
    /\ served' = served + 1
    /\ Step(h, [Idle EXCEPT !.pc = "loaded", !.kind = kind, !.sess = s, !.state = session[s],
                            !.custom_nonce = q, !.assertion = a])
    /\ UNCHANGED <<nonces, generated, now, session, calls, last>>

ArriveLogin(h) == \E s \in Sessions : Arrive(h, "login", s, 0, NoAssertion)
ArriveLogout(h) == \E s \in Sessions : Arrive(h, "logout", s, 0, NoAssertion)
\* The callback's query as the provider's redirect delivers it: custom_nonce,
\* and an assertion whose openid.return_to carries the same text.
ArriveCallback(h) ==
    \E s \in Sessions, q \in Texts, a \in Assertions(now) :
        Arrive(h, "callback", s, q, [a EXCEPT !.return_to = with_custom_nonce(RETURN_TO, q)])

\* A callback put together by the client: custom_nonce is one text, the
\* assertion's openid.return_to carries another.
ArriveForgedCallback(h) ==
    \E s \in Sessions, q \in Texts, a \in Assertions(now) :
        \E m \in Texts \ {q} :
            Arrive(h, "callback", s, q, [a EXCEPT !.return_to = with_custom_nonce(RETURN_TO, m)])

\* SessionMiddleware: the response goes out and a changed session is stored
Reply(h) ==
    /\ req[h].pc = "respond"
    /\ session' = IF req[h].status = "Changed"
                  THEN [session EXCEPT ![req[h].sess] = req[h].state]
                  ELSE session
    /\ Step(h, Idle)
    /\ UNCHANGED <<served, nonces, generated, now, calls, last>>

\* AuthSession::insert_new_nonce: the request and the registry afterwards
insert_new_nonce(r, map, new, t) ==
    LET i == insert_new(map, new, t)
    IN  [ok |-> TRUE, nonce |-> i.nonce, map |-> i.map,
         req |-> [r EXCEPT !.state = Redirected(i.nonce), !.status = "Changed"]]

\* AuthSession::validate_replace_nonce
validate_replace_nonce(r, map, old, new, t) ==
    LET p == replace(map, old, new, t)
    IN  IF p.res # "Ok"
        THEN [ok |-> FALSE, nonce |-> 0, map |-> p.map, req |-> r]
        ELSE [ok |-> TRUE, nonce |-> p.nonce, map |-> p.map,
              req |-> [r EXCEPT !.state = Redirected(p.nonce), !.status = "Changed"]]

\* authenticate that leaves the session unmarked, so that it is never stored
authenticate_unsaved(r, steam_id) ==
    [r EXCEPT !.state = Authenticated(steam_id)]

\* AuthSession::authenticate
authenticate(r, steam_id) ==
    [r EXCEPT !.state = Authenticated(steam_id), !.status = "Changed"]

\* logout that clears the session whatever its state
logout_unconditional(r) ==
    [ok |-> TRUE, req |-> [r EXCEPT !.state = Anonymous, !.status = "Changed"]]

\* AuthSession::logout: Session::clear when authenticated, else "not logged in"
logout(r) ==
    IF r.state.tag = "Authenticated"
    THEN [ok |-> TRUE, req |-> [r EXCEPT !.state = Anonymous, !.status = "Changed"]]
    ELSE [ok |-> FALSE, req |-> r]

\* start_steam_auth, the handler body: the request and the registry afterwards
start_steam_auth(r, map, new, t) ==
    IF r.state.tag = "Authenticated"
    THEN [map |-> map, req |-> Respond(r, 307, LocalRedirect("/api/health/cookies"))]
    ELSE LET n == IF r.state.tag = "Redirected"
                  THEN validate_replace_nonce(r, map, r.state.nonce, new, t)
                  ELSE insert_new_nonce(r, map, new, t)
             url == auth_url_with_nonce(n.nonce)
         IN  IF ~n.ok THEN [map |-> n.map, req |-> Respond(n.req, 500, NoLocation)]
             ELSE IF ~url.ok THEN [map |-> n.map, req |-> Respond(n.req, 500, NoLocation)]
             ELSE [map |-> n.map, req |-> Respond(n.req, 307, url)]

StartSteamAuth(h) ==
    /\ req[h].pc = "loaded"
    /\ req[h].kind = "login"
    /\ IF req[h].state.tag = "Authenticated"
       THEN /\ Step(h, start_steam_auth(req[h], nonces, 0, now).req)
            /\ UNCHANGED <<nonces, generated>>
       ELSE \E new \in random :
               LET o == start_steam_auth(req[h], nonces, new, now)
               IN  /\ Step(h, o.req)
                   /\ nonces' = o.map
                   /\ generated' = generated \cup {new}
    /\ UNCHANGED <<served, now, session, calls, last>>

\* logout_steam_auth, the handler body
logout_steam_auth(r) ==
    LET o == logout(r)
    IN  IF o.ok THEN Respond(o.req, 307, LocalRedirect("/api/health/cookies"))
        ELSE Respond(o.req, 500, NoLocation)

LogoutSteamAuth(h) ==
    /\ req[h].pc = "loaded"
    /\ req[h].kind = "logout"
    /\ Step(h, logout_steam_auth(req[h]))
    /\ UNCHANGED <<served, nonces, generated, now, session, calls, last>>

\* return_steam_auth that consumes the query's nonce before it compares it
\* with the session's
return_steam_auth_nonce_consume_first(r, map, t) ==
    IF r.state.tag = "Authenticated"
    THEN [map |-> map, req |-> Respond(r, 307, LocalRedirect("/api/health/cookies"))]
    ELSE IF r.state.tag = "Anonymous"
    THEN [map |-> map, req |-> Respond(r, 307, LocalRedirect("/api/auth/steam/login"))]
    ELSE LET v == validate_and_remove(map, r.state.nonce, t)
         IN  IF r.custom_nonce # r.state.nonce
             THEN [map |-> v.map, req |-> Respond(r, 400, NoLocation)]
             ELSE IF v.res # "Ok"
             THEN [map |-> v.map, req |-> Respond([r EXCEPT !.nonce_res = v.res], 400, NoLocation)]
             ELSE [map |-> v.map, req |-> [r EXCEPT !.nonce_res = v.res, !.pc = "consumed"]]

\* return_steam_auth that consumes the query's nonce before it looks at the
\* session's state
return_steam_auth_nonce_any_state(r, map, t) ==
    LET v == validate_and_remove(map, r.custom_nonce, t)
    IN  IF r.state.tag = "Authenticated"
        THEN [map |-> v.map, req |-> Respond(r, 307, LocalRedirect("/api/health/cookies"))]
        ELSE IF r.state.tag = "Anonymous"
        THEN [map |-> v.map, req |-> Respond(r, 307, LocalRedirect("/api/auth/steam/login"))]
        ELSE IF r.custom_nonce # r.state.nonce
        THEN [map |-> map, req |-> Respond(r, 400, NoLocation)]
        ELSE IF v.res # "Ok"
        THEN [map |-> v.map, req |-> Respond([r EXCEPT !.nonce_res = v.res], 400, NoLocation)]
        ELSE [map |-> v.map, req |-> [r EXCEPT !.nonce_res = v.res, !.pc = "consumed"]]

\* return_steam_auth that checks the nonce with NonceSet::validate, which
\* leaves it in the registry
return_steam_auth_nonce_validate_only(r, map, t) ==
    IF r.state.tag = "Authenticated"
    THEN [map |-> map, req |-> Respond(r, 307, LocalRedirect("/api/health/cookies"))]
    ELSE IF r.state.tag = "Anonymous"
    THEN [map |-> map, req |-> Respond(r, 307, LocalRedirect("/api/auth/steam/login"))]
    ELSE IF r.custom_nonce # r.state.nonce
    THEN [map |-> map, req |-> Respond(r, 400, NoLocation)]
    ELSE LET v == validate_nonce(map, r.custom_nonce)
         IN  IF v # "Ok"
             THEN [map |-> map, req |-> Respond([r EXCEPT !.nonce_res = v], 400, NoLocation)]
             ELSE [map |-> map, req |-> [r EXCEPT !.nonce_res = v, !.pc = "consumed"]]

\* return_steam_auth up to the nonce's consumption (src lines 174-209)
return_steam_auth_nonce(r, map, t) ==
    IF r.state.tag = "Authenticated"
    THEN [map |-> map, req |-> Respond(r, 307, LocalRedirect("/api/health/cookies"))]
    ELSE IF r.state.tag = "Anonymous"
    THEN [map |-> map, req |-> Respond(r, 307, LocalRedirect("/api/auth/steam/login"))]
    ELSE IF r.custom_nonce # r.state.nonce
    THEN [map |-> map, req |-> Respond(r, 400, NoLocation)]
    ELSE LET v == validate_and_remove(map, r.custom_nonce, t)
         IN  IF v.res # "Ok"
             THEN [map |-> v.map, req |-> Respond([r EXCEPT !.nonce_res = v.res], 400, NoLocation)]
             ELSE [map |-> v.map, req |-> [r EXCEPT !.nonce_res = v.res, !.pc = "consumed"]]

ReturnSteamAuthNonce(h) ==
    /\ req[h].pc = "loaded"
    /\ req[h].kind = "callback"
    /\ LET o == return_steam_auth_nonce(req[h], nonces, now)
       IN  /\ Step(h, o.req)
           /\ nonces' = o.map
           /\ calls' = IF o.req.nonce_res = "none" THEN calls
                       ELSE Record(calls, req[h].custom_nonce, o.req.nonce_res)
    /\ UNCHANGED <<served, generated, now, session, last>>

\* return_steam_auth, the steam id of the claimed id (src lines 211-220);
\* SteamId::from_str reads a decimal u64
extract_steam_id(a) ==
    LET p == strip_prefix(a.claimed_id, STEAM_IDENTITY_PREFIX)
    IN  IF ~p[1] THEN <<FALSE, 0>> ELSE parse_u64(p[2])

\* return_steam_auth_validate without the provider-specific validation
return_steam_auth_validate_generic_only(r, t) ==
    LET id == extract_steam_id(r.assertion)
        g  == validate(r.assertion, ProviderEndpoint)
    IN  IF ~id[1] THEN Respond(r, 400, NoLocation)
        ELSE IF g # "Ok" THEN Respond([r EXCEPT !.steam_id = id[2], !.generic = g], 400, NoLocation)
        ELSE [r EXCEPT !.steam_id = id[2], !.generic = g, !.specific = "Ok", !.pc = "validated"]

\* return_steam_auth and validate_positive_assertion, the local checks
\* (src lines 211-220 and 154-159)
return_steam_auth_validate(r, t) ==
    LET id == extract_steam_id(r.assertion)
        g  == validate(r.assertion, ProviderEndpoint)
        s  == validate_steam(r.assertion, t)
    IN  IF ~id[1] THEN Respond(r, 400, NoLocation)
        ELSE IF g # "Ok" THEN Respond([r EXCEPT !.steam_id = id[2], !.generic = g], 400, NoLocation)
        ELSE IF s # "Ok"
        THEN Respond([r EXCEPT !.steam_id = id[2], !.generic = g, !.specific = s], 400, NoLocation)
        ELSE [r EXCEPT !.steam_id = id[2], !.generic = g, !.specific = s, !.pc = "validated"]

ReturnSteamAuthValidate(h) ==
    /\ req[h].pc = "consumed"
    /\ Step(h, return_steam_auth_validate(req[h], now))
    /\ UNCHANGED <<served, nonces, generated, now, session, calls, last>>

\* return_steam_auth that does not look at is_valid
return_steam_auth_verify_unchecked(r, answer) ==
    LET sent == set_mode(r.assertion, OPENID_MODE_CHECK_AUTHENTICATION)
        v == verify_against_provider(answer)
        p == [r EXCEPT !.posted = sent]
    IN  IF ~v.ok THEN Respond([p EXCEPT !.verify = "error"], 400, NoLocation)
        ELSE [authenticate(p, r.steam_id) EXCEPT
                 !.verify = IF v.is_valid THEN "valid" ELSE "invalid", !.pc = "authenticated"]

\* validate_positive_assertion's POST and return_steam_auth up to
\* AuthSession::authenticate (src lines 161-166 and 222-235)
return_steam_auth_verify(r, answer) ==
    LET sent == set_mode(r.assertion, OPENID_MODE_CHECK_AUTHENTICATION)
        v == verify_against_provider(answer)
        p == [r EXCEPT !.posted = sent]
    IN  IF ~v.ok THEN Respond([p EXCEPT !.verify = "error"], 400, NoLocation)
        ELSE IF ~v.is_valid THEN Respond([p EXCEPT !.verify = "invalid"], 400, NoLocation)
        ELSE [authenticate(p, r.steam_id) EXCEPT !.verify = "valid", !.pc = "authenticated"]

ReturnSteamAuthVerify(h) ==
    /\ req[h].pc = "validated"
    /\ \E answer \in ProviderAnswers : Step(h, return_steam_auth_verify(req[h], answer))
    /\ UNCHANGED <<served, nonces, generated, now, session, calls, last>>

\* return_steam_auth that propagates the profile lookup's error with `?`
return_steam_auth_profile_required(r, found) ==
    IF found THEN Respond([r EXCEPT !.profile = "some"], 200, NoLocation)
    ELSE Respond([r EXCEPT !.profile = "omitted"], 500, NoLocation)

\* return_steam_auth, the profile lookup and the answer (src lines 237-254)
return_steam_auth_profile(r, found) ==
    Respond([r EXCEPT !.profile = IF found THEN "some" ELSE "omitted"], 200, NoLocation)

ReturnSteamAuthProfile(h) ==
    /\ req[h].pc = "authenticated"
    /\ \E found \in BOOLEAN : Step(h, return_steam_auth_profile(req[h], found))
    /\ UNCHANGED <<served, nonces, generated, now, session, calls, last>>

Next ==
    \/ Tick
    \/ \E h \in Handlers :
          \/ ArriveLogin(h)
          \/ ArriveLogout(h)
          \/ ArriveCallback(h)
          \/ StartSteamAuth(h)
          \/ LogoutSteamAuth(h)
          \/ ReturnSteamAuthNonce(h)
          \/ ReturnSteamAuthValidate(h)
          \/ ReturnSteamAuthVerify(h)
          \/ ReturnSteamAuthProfile(h)
          \/ Reply(h)

Spec == Init /\ [][Next]_vars

\* SpecSequential: the same handlers with one request in flight at a time
\* (a request arrives only when every earlier one has been answered).
Quiescent == \A h \in Handlers : req[h].pc = "idle"

NextSequential ==
    \/ Tick
    \/ \E h \in Handlers :
          \/ Quiescent /\ ArriveLogin(h)
          \/ Quiescent /\ ArriveLogout(h)
          \/ Quiescent /\ ArriveCallback(h)
          \/ StartSteamAuth(h)
          \/ LogoutSteamAuth(h)
          \/ ReturnSteamAuthNonce(h)
          \/ ReturnSteamAuthValidate(h)
          \/ ReturnSteamAuthVerify(h)
          \/ ReturnSteamAuthProfile(h)
          \/ Reply(h)

SpecSequential == Init /\ [][NextSequential]_vars

\* SpecForged: SpecSequential with clients that also send forged callbacks.
NextForged ==
    \/ NextSequential
    \/ \E h \in Handlers : Quiescent /\ ArriveForgedCallback(h)

SpecForged == Init /\ [][NextForged]_vars

(***************************************************************************)
(* SpecRegistry: the NonceSet API of src/util/nonce.rs called directly, in *)
(* any order and with any argument.  `last` records the last call: its     *)
(* argument, its result, the map before it, the clock at the call, and     *)
(* whether validate_and_remove had been called on the argument before.     *)
(***************************************************************************)

RegistryInstants == {0, 360000, 5000000, 5000001}

Called(op, arg, res, nonce, again, tried) ==
    last' = [op |-> op, arg |-> arg, res |-> res, nonce |-> nonce, before |-> nonces,
             at |-> now, again |-> again, tried |-> tried]

RegTick ==
    /\ \E t \in RegistryInstants : t > now /\ now' = t
    /\ UNCHANGED <<served, nonces, generated, session, req, calls, last>>

RegInsertNew ==
    \E new \in random :
        LET o == insert_new(nonces, new, now)
        IN  /\ nonces' = o.map
            /\ generated' = generated \cup {new}
            /\ Called("insert_new", 0, "Ok", o.nonce, FALSE, last.tried)
            /\ UNCHANGED <<served, now, session, req, calls>>

RegValidateAndRemove ==
    \E n \in Texts :
        LET o == validate_and_remove(nonces, n, now)
        IN  /\ nonces' = o.map
            /\ calls' = Record(calls, n, o.res)
            /\ Called("validate_and_remove", n, o.res, 0, n \in last.tried, last.tried \cup {n})
            /\ UNCHANGED <<served, generated, now, session, req>>

RegValidate ==
    \E n \in Texts :
        /\ Called("validate", n, validate_nonce(nonces, n), 0, FALSE, last.tried)
        /\ UNCHANGED <<served, nonces, generated, now, session, req, calls>>

RegReplace ==
    \E old \in Texts, new \in random :
        LET o == replace(nonces, old, new, now)
        IN  /\ nonces' = o.map
            /\ generated' = generated \cup {new}
            /\ Called("replace", old, o.res, o.nonce, FALSE, last.tried)
            /\ UNCHANGED <<served, now, session, req, calls>>

RegRemoveExpired ==
    /\ nonces' = remove_expired_nonces(nonces, now)
    /\ Called("remove_expired_nonces", 0, "Ok", 0, FALSE, last.tried)
    /\ UNCHANGED <<served, generated, now, session, req, calls>>

NextRegistry ==
    \/ RegTick
    \/ RegInsertNew
    \/ RegValidateAndRemove
    \/ RegValidate
    \/ RegReplace
    \/ RegRemoveExpired

SpecRegistry == Init /\ [][NextRegistry]_vars

(***************************************************************************)
(* SpecRace: two threads call NonceSet::replace or validate_and_remove at  *)
(* the same time, and the scheduler may switch between them wherever the   *)
(* mutex is not held.  In this specification req[h] is the call of thread  *)
(* h: its position, its argument and its locals.                           *)
(***************************************************************************)

RaceOps == {"replace", "validate_and_remove"}

\* a registry that issued text 1 at time 0, and the same after 1 was consumed
RaceMaps == {MapInsert(EmptyMap, 1, 0), EmptyMap}

\* Option<Metadata>: the entry of k, if the map has one
MapGet(map, k) == [x \in {k} \cap DOMAIN map |-> map[x]]

\* a call that has not run yet; `held` is the entry its argument had when the
\* call was issued (history)
RaceCall(op, arg, map) ==
    [pc |-> "start", op |-> op, arg |-> arg, held |-> MapGet(map, arg),
     new |-> 0, time |-> 0, taken |-> EmptyMap, res |-> "none"]

InitRace ==
    /\ served = 0
    /\ nonces \in RaceMaps
    /\ generated = {1}
    /\ now = 0
    /\ session = [s \in Sessions |-> Anonymous]
    /\ req \in {[h \in Handlers |-> RaceCall(op[h], arg[h], nonces)] :
                   op \in [Handlers -> RaceOps], arg \in [Handlers -> Texts]}
    /\ calls = NoCalls
    /\ last = NoCall

\* replace, before the lock: Nonce::random and Metadata::new (src lines 119-121)
RaceReplaceRandom(h) ==
    /\ req[h].pc = "start"
    /\ req[h].op = "replace"
    /\ \E new \in random :
          /\ generated' = generated \cup {new}
          /\ Step(h, [req[h] EXCEPT !.pc = "ready", !.new = new, !.time = now])
    /\ UNCHANGED <<served, nonces, now, session, calls, last>>

\* replace, under the lock (src lines 123-129)
RaceReplaceLocked(h) ==
    /\ req[h].pc = "ready"
    /\ LET o == replace(nonces, req[h].arg, req[h].new, req[h].time)
       IN  /\ nonces' = o.map
           /\ Step(h, [req[h] EXCEPT !.pc = "done", !.res = o.res])
    /\ UNCHANGED <<served, generated, now, session, calls, last>>

\* validate_and_remove, under the lock: HashMap::remove (src lines 99-101)
RaceRemove(h) ==
    /\ req[h].pc = "start"
    /\ req[h].op = "validate_and_remove"
    /\ LET t == MapGet(nonces, req[h].arg)
       IN  /\ nonces' = validate_and_remove(nonces, req[h].arg, now).map
           /\ Step(h, IF t = EmptyMap
                      THEN [req[h] EXCEPT !.pc = "done",
                               !.res = validate_and_remove(t, req[h].arg, now).res]
                      ELSE [req[h] EXCEPT !.pc = "removed", !.taken = t])
    /\ UNCHANGED <<served, generated, now, session, calls, last>>

\* validate_and_remove, after the lock: the expiry check (src lines 102-105)
RaceCheckExpiry(h) ==
    /\ req[h].pc = "removed"
    /\ Step(h, [req[h] EXCEPT !.pc = "done", !.time = now,
                   !.res = validate_and_remove(req[h].taken, req[h].arg, now).res])
    /\ UNCHANGED <<served, nonces, generated, now, session, calls, last>>

NextRace ==
    \/ RegTick
    \/ \E h \in Handlers :
          \/ RaceReplaceRandom(h)
          \/ RaceReplaceLocked(h)
          \/ RaceRemove(h)
          \/ RaceCheckExpiry(h)

SpecRace == InitRace /\ [][NextRace]_vars

(***************************************************************************)
(* SpecAssertion: PositiveAssertion::validate and validate_steam applied   *)
(* to one assertion.  Init draws the assertion field by field; `last` is   *)
(* the call made on it and its result.                                     *)
(***************************************************************************)

Namespaces == {OPENID_AUTH_NAMESPACE, <<"http", ":", "//openid.net/signon/1.1">>}
Modes == {OPENID_MODE_IDENTIFIER_RESPONSE, <<"cancel">>}
Endpoints == {ProviderEndpoint, <<"https", ":", "//steamcommunity.com/openid/login/">>}

\* claimed_id and identity values: with and without the prefix, with a
\* decimal, a signed, a non-decimal and an empty remainder
Identifiers ==
    { <<STEAM_IDENTITY_PREFIX, "7">>, <<STEAM_IDENTITY_PREFIX, "0", "7">>,
      <<STEAM_IDENTITY_PREFIX, "+", "7">>, <<STEAM_IDENTITY_PREFIX, "8">>,
      <<STEAM_IDENTITY_PREFIX, "x">>, <<STEAM_IDENTITY_PREFIX>>, <<"7">> }

\* the sequence s without its i-th element
Without(s, i) == SubSeq(s, 1, i - 1) \o SubSeq(s, i + 1, Len(s))

\* openid.signed lists: the genuine one, the genuine one without one of its
\* names, the required names alone, one name with its "openid." prefix kept,
\* and the empty list
SignedLists ==
    LET full == Genuine(0).signed_fields
    IN  {full, Without(full, 1), <<>>,
         [full EXCEPT ![4] = <<OPENID_FIELD_PREFIX, "identity">>]}
        \cup {Without(full, i) : i \in 2..Len(full)}

Signatures == {Genuine(0).signature, <<>>}

\* age of the response nonce at the call, in ms
ResponseAges == {10000, 30000, 30001, 40000}

AssertionInputs ==
    [namespace : Namespaces, mode : Modes, service_endpoint : Endpoints,
     claimed_id : Identifiers, identity : Identifiers,
     return_to : {with_custom_nonce(RETURN_TO, 0)}, nonce : {0 - g : g \in ResponseAges},
     signed_fields : SignedLists, signature : Signatures]

NoResult ==
    [op |-> "none", assertion |-> NoAssertion, res |-> "none", at |-> 0, id |-> <<FALSE, 0>>]

InitAssertion ==
    /\ served = 0
    /\ nonces = EmptyMap
    /\ generated = {}
    /\ now = 0
    /\ session = [s \in Sessions |-> Anonymous]
    /\ req = [h \in Handlers |-> Idle]
    /\ calls = NoCalls
    /\ \E a \in AssertionInputs : last = [NoResult EXCEPT !.assertion = a]

\* assertion.validate(&provider) with the discovered provider
ApplyValidate ==
    /\ last.op = "none"
    /\ last' = [last EXCEPT !.op = "validate", !.at = now,
                   !.res = validate(last.assertion, ProviderEndpoint)]
    /\ UNCHANGED <<served, nonces, generated, now, session, req, calls>>

\* assertion.validate_steam(), and the steam id the handler reads off claimed_id
ApplyValidateSteam ==
    /\ last.op = "none"
    /\ last' = [last EXCEPT !.op = "validate_steam", !.at = now,
                   !.res = validate_steam(last.assertion, now),
                   !.id = extract_steam_id(last.assertion)]
    /\ UNCHANGED <<served, nonces, generated, now, session, req, calls>>

NextAssertion ==
    \/ ApplyValidate
    \/ ApplyValidateSteam

SpecAssertion == InitAssertion /\ [][NextAssertion]_vars

(***************************************************************************)
(* SpecUrl: make_auth_req_url applied to one realm and one return_to.      *)
(***************************************************************************)

\* The realm and the return_to are drawn with the scheme http or https and
\* with host_str() one of two names or "", an url without a host; the
\* return_to carries any custom_nonce.
InitUrl ==
    /\ served = 0
    /\ nonces = EmptyMap
    /\ generated = {}
    /\ now = 0
    /\ session = [s \in Sessions |-> Anonymous]
    /\ req = [h \in Handlers |-> Idle]
    /\ calls = NoCalls
    /\ \E rc, tc \in {"http", "https"}, rh, th \in {"localhost", "example.com", ""},
          n \in QueryNonce :
          last = [op |-> "none",
                  realm |-> [scheme |-> rc, host |-> rh, port |-> "8080", path |-> "/"],
                  return_to |-> with_custom_nonce([scheme |-> tc, host |-> th, port |-> "8080",
                                                   path |-> "/api/auth/steam/callback"], n),
                  res |-> UrlError]

\* make_auth_req_url(&provider, realm, return_to)
ApplyMakeAuthReqUrl ==
    /\ last.op = "none"
    /\ last' = [last EXCEPT !.op = "make_auth_req_url",
                   !.res = make_auth_req_url(ProviderEndpoint, last.realm, last.return_to)]
    /\ UNCHANGED <<served, nonces, generated, now, session, req, calls>>

NextUrl == ApplyMakeAuthReqUrl

SpecUrl == InitUrl /\ [][NextUrl]_vars

(***************************************************************************)
(* src/openid/xml_util.rs, src/openid/provider.rs, src/openid/xml.rs:      *)
(* discovery of the provider from its XRDS document                        *)
(***************************************************************************)

\* src/openid/constants.rs:75
OPENID_PROVIDER_IDENTIFIER == <<"http", ":", "//specs.openid.net/auth/2.0/server">>

\* src/openid/provider.rs:10
NAMESPACE_DEFAULT == "xri://$xrd*($v*2.0)"

\* src/openid/provider.rs:11
NAMESPACE_XRDS == "xri://$xrds"

\* Namespace::new(name, uri); an Option<&str> is a sequence of at most one name
Namespace(name, uri) == [name |-> name, uri |-> uri]

EXPECTED_NAMESPACES ==
    <<Namespace(<<>>, NAMESPACE_DEFAULT), Namespace(<<"xrds">>, NAMESPACE_XRDS)>>

\* Namespace::matches
matches(self, other) == self.name = other.name /\ self.uri = other.uri

\* The nodes of a roxmltree document.  An element carries its tag name, its
\* priority attribute (an Option: a sequence of at most one text) and its
\* children in document order; a text node carries its text.
Element(tag, priority, children) ==
    [kind |-> "element", tag |-> tag, priority |-> priority, text |-> <<>>,
     children |-> children]

Text(text) ==
    [kind |-> "text", tag |-> "", priority |-> <<>>, text |-> text, children |-> <<>>]

Comment == [kind |-> "comment", tag |-> "", priority |-> <<>>, text |-> <<>>, children |-> <<>>]

\* Ord of &str: the place of a name among the names the documents use, in
\* the byte order str::cmp sorts them by
str_rank(s) ==
    LET names == <<"LocalID", "Service", "Type", "URI", "XRD", "openid", "xrds", "xsi">>
    IN  CHOOSE i \in 1..Len(names) : names[i] = s

\* Ord of Option<&str>: None sorts before every Some
option_rank(name) == IF name = <<>> THEN 0 ELSE str_rank(name[1])

\* The order slice::sort_unstable_by_key leaves the positions of a slice in,
\* given the keys of its elements.  Equal keys stay in slice order here; the
\* callers reject a slice with equal keys whatever their order.
RECURSIVE sorted_order(_, _)
sorted_order(keys, todo) ==
    IF todo = {} THEN <<>>
    ELSE LET i == CHOOSE i \in todo :
                      \A j \in todo : keys[i] < keys[j] \/ (keys[i] = keys[j] /\ i <= j)
         IN  <<i>> \o sorted_order(keys, todo \ {i})

sort_unstable_by_key(slice, keys) ==
    LET order == sorted_order(keys, 1..Len(slice))
    IN  [i \in 1..Len(slice) |-> slice[order[i]]]

\* The length std::iter::zip stops at
zip_len(lhs, rhs) == IF Len(lhs) < Len(rhs) THEN Len(lhs) ELSE Len(rhs)

namespaces_eq_unsized(doc, namespaces) ==
    LET root_namespaces ==
            sort_unstable_by_key(doc.namespaces,
                [i \in 1..Len(doc.namespaces) |-> option_rank(doc.namespaces[i].name)])
        expected ==
            sort_unstable_by_key(namespaces,
                [i \in 1..Len(namespaces) |-> option_rank(namespaces[i].name)])
    IN  \A i \in 1..zip_len(root_namespaces, expected) :
            matches(expected[i], root_namespaces[i])

\* namespaces_eq: TRUE for Ok(()), FALSE for an error
namespaces_eq(doc, namespaces) ==
    LET root_namespaces ==
            sort_unstable_by_key(doc.namespaces,
                [i \in 1..Len(doc.namespaces) |-> option_rank(doc.namespaces[i].name)])
        expected ==
            sort_unstable_by_key(namespaces,
                [i \in 1..Len(namespaces) |-> option_rank(namespaces[i].name)])
    IN  IF Len(root_namespaces) # Len(expected) THEN FALSE
        ELSE \A i \in 1..zip_len(root_namespaces, expected) :
                 matches(expected[i], root_namespaces[i])

\* get_only_child: the element, or an error
get_only_child(node, tag_name) ==
    LET children == SelectSeq(node.children, LAMBDA c : c.kind = "element")
        error == [ok |-> FALSE, node |-> Comment]
    IN  IF Len(children) = 0 THEN error
        ELSE IF Len(children) > 1 THEN error
        ELSE IF children[1].tag # tag_name THEN error
        ELSE [ok |-> TRUE, node |-> children[1]]

\* get_only_text_child: the text, or an error
get_only_text_child(node) ==
    LET children == SelectSeq(node.children, LAMBDA c : c.kind = "text")
        error == [ok |-> FALSE, text |-> <<>>]
    IN  IF Len(children) = 0 THEN error
        ELSE IF Len(children) > 1 THEN error
        ELSE [ok |-> TRUE, text |-> children[1].text]

\* The HashMap collected from the zipped pairs: a later pair with the same
\* tag replaces an earlier one.
collect_map(tags, children) ==
    LET n == zip_len(children, tags)
    IN  [t \in {tags[i] : i \in 1..n} |->
            LET last_i == CHOOSE i \in 1..n :
                              tags[i] = t /\ \A j \in 1..n : tags[j] = t => j <= i
            IN  children[last_i]]

get_child_set_any_tags(node, tag_names) ==
    LET children == SelectSeq(node.children, LAMBDA c : c.kind = "element")
        sorted_children ==
            sort_unstable_by_key(children,
                [i \in 1..Len(children) |-> str_rank(children[i].tag)])
        sorted_names ==
            sort_unstable_by_key(tag_names,
                [i \in 1..Len(tag_names) |-> str_rank(tag_names[i])])
    IN  IF Len(children) # Len(tag_names) THEN [ok |-> FALSE, map |-> <<>>]
        ELSE [ok |-> TRUE, map |-> collect_map(sorted_names, sorted_children)]

\* get_child_set
get_child_set(node, tag_names) ==
    LET children == SelectSeq(node.children, LAMBDA c : c.kind = "element")
        sorted_children ==
            sort_unstable_by_key(children,
                [i \in 1..Len(children) |-> str_rank(children[i].tag)])
        sorted_names ==
            sort_unstable_by_key(tag_names,
                [i \in 1..Len(tag_names) |-> str_rank(tag_names[i])])
    IN  IF Len(children) # Len(tag_names) THEN [ok |-> FALSE, map |-> <<>>]
        ELSE IF ~ \A i \in 1..zip_len(sorted_children, sorted_names) :
                      sorted_children[i].tag = sorted_names[i]
             THEN [ok |-> FALSE, map |-> <<>>]
        ELSE [ok |-> TRUE, map |-> collect_map(sorted_names, sorted_children)]

\* str::parse::<i32>: <<TRUE, value>> or <<FALSE, 0>>; one sign and then at
\* least one digit, the value within the range of i32
parse_i32(s) ==
    LET signed == Len(s) > 0 /\ s[1] \in {"+", "-"}
        d == IF signed THEN Tail(s) ELSE s
        negative == signed /\ s[1] = "-"
    IN  IF Len(d) > 0 /\ \A i \in 1..Len(d) : d[i] \in Digits
        THEN LET v == IF negative THEN 0 - DecimalValue(d) ELSE DecimalValue(d)
             IN  IF v >= (0 - 2147483647) - 1 /\ v <= 2147483647 THEN <<TRUE, v>> ELSE <<FALSE, 0>>
        ELSE <<FALSE, 0>>

\* The provider of a failed discovery: there is none
NoProvider ==
    [service |-> [version |-> <<>>, endpoint |-> <<>>, local_id |-> <<>>, priority |-> <<>>]]

\* Service::from_node: the Service, or an error
Service_from_node(service_node) ==
    LET error == [ok |-> FALSE, service |-> NoProvider.service]
        priority == parse_i32(service_node.priority[1])
        service_children == get_child_set(service_node, <<"URI", "Type">>)
        service_type == get_only_text_child(service_children.map["Type"])
        endpoint == get_only_text_child(service_children.map["URI"])
    IN  IF service_node.tag # "Service" THEN error
        ELSE IF service_node.priority = <<>> THEN error
        ELSE IF ~priority[1] THEN error
        ELSE IF ~service_children.ok THEN error
        ELSE IF ~service_type.ok THEN error
        ELSE IF service_type.text # OPENID_PROVIDER_IDENTIFIER THEN error
        ELSE IF ~endpoint.ok THEN error
        ELSE [ok |-> TRUE,
              service |-> [version |-> OPENID_AUTH_NAMESPACE,
                           endpoint |-> endpoint.text,
                           local_id |-> <<>>,
                           priority |-> <<priority[2]>>]]

DiscoveryError == [ok |-> FALSE, provider |-> NoProvider]

\* Provider::from_node
Provider_from_node(xrd_node) ==
    IF xrd_node.tag # "XRD" THEN DiscoveryError
    ELSE LET service_node == get_only_child(xrd_node, "Service")
         IN  IF ~service_node.ok THEN DiscoveryError
             ELSE LET service == Service_from_node(service_node.node)
                  IN  IF ~service.ok THEN DiscoveryError
                      ELSE [ok |-> TRUE, provider |-> [service |-> service.service]]

\* Provider::from_xml; roxmltree::Document::parse fails on a text that is not
\* well-formed XML
from_xml(xml) ==
    IF ~xml.well_formed THEN DiscoveryError
    ELSE IF ~namespaces_eq(xml, EXPECTED_NAMESPACES) THEN DiscoveryError
    ELSE LET xrd_node == get_only_child(xml.root, "XRD")
         IN  IF ~xrd_node.ok THEN DiscoveryError
             ELSE Provider_from_node(xrd_node.node)

\* parse_xml of src/openid/xml.rs, whose Provider is the version and the
\* endpoint alone
parse_xml(xml) ==
    IF ~xml.well_formed THEN DiscoveryError
    ELSE IF ~namespaces_eq(xml, EXPECTED_NAMESPACES) THEN DiscoveryError
    ELSE LET xrd == get_only_child(xml.root, "XRD")
         IN  IF ~xrd.ok THEN DiscoveryError
             ELSE LET service == get_only_child(xrd.node, "Service")
                  IN  IF ~service.ok THEN DiscoveryError
                      ELSE LET service_children ==
                                   get_child_set(service.node, <<"URI", "Type">>)
                           IN  IF ~service_children.ok THEN DiscoveryError
                               ELSE LET service_type ==
                                            get_only_text_child(service_children.map["Type"])
                                        endpoint ==
                                            get_only_text_child(service_children.map["URI"])
                                    IN  IF ~service_type.ok THEN DiscoveryError
                                        ELSE IF service_type.text # OPENID_PROVIDER_IDENTIFIER
                                             THEN DiscoveryError
                                        ELSE IF ~endpoint.ok THEN DiscoveryError
                                        ELSE [ok |-> TRUE,
                                              provider |-> [version |-> OPENID_AUTH_NAMESPACE,
                                                            endpoint |-> endpoint.text]]

(***************************************************************************)
(* SpecDiscovery: Provider::from_xml and parse_xml applied to one document *)
(***************************************************************************)

\* Largest number of Service elements in the XRD element of a document.
MaxServices == 2

\* The Service elements of the documents.  Five are well formed, with the
\* priorities 0, 5 and -7 and two endpoints; the others differ from a well
\* formed one in one respect.
ServiceElements ==
    LET indent == Text(<<"\n", "    ">>)
        other_endpoint == <<"https", ":", "//idp.example/openid/login">>
        signon == <<"http", ":", "//specs.openid.net/auth/2.0/signon">>
        type == Element("Type", <<>>, <<Text(OPENID_PROVIDER_IDENTIFIER)>>)
        uri == Element("URI", <<>>, <<Text(ProviderEndpoint)>>)
    IN  { Element("Service", <<p>>,
              <<indent, type, indent, Element("URI", <<>>, <<Text(e)>>), indent>>) :
              p \in {<<"0">>, <<"5">>}, e \in {ProviderEndpoint, other_endpoint} }
        \cup
        { Element("Service", <<<<"-", "7">>>>,
              <<Element("URI", <<>>, <<Text(other_endpoint)>>), type>>),
          Element("Service", <<>>, <<type, uri>>),
          Element("Service", <<<<"x">>>>, <<type, uri>>),
          Element("LocalID", <<<<"0">>>>, <<type, uri>>),
          Element("Service", <<<<"0">>>>, <<type>>),
          Element("Service", <<<<"0">>>>, <<uri>>),
          Element("Service", <<<<"0">>>>, <<type, uri, uri>>),
          Element("Service", <<<<"0">>>>, <<type, type>>),
          Element("Service", <<<<"0">>>>,
              <<type, uri, Element("LocalID", <<>>, <<Text(<<"7">>)>>)>>),
          Element("Service", <<<<"0">>>>, <<Element("Type", <<>>, <<Text(signon)>>), uri>>),
          Element("Service", <<<<"0">>>>,
              <<Element("Type", <<>>, <<Text(OPENID_PROVIDER_IDENTIFIER \o <<"\n">>)>>), uri>>),
          Element("Service", <<<<"0">>>>, <<Element("Type", <<>>, <<>>), uri>>),
          Element("Service", <<<<"0">>>>,
              <<Element("Type", <<>>, <<Text(OPENID_PROVIDER_IDENTIFIER), Comment,
                                        Text(OPENID_PROVIDER_IDENTIFIER)>>), uri>>),
          Element("Service", <<<<"0">>>>, <<type, Element("URI", <<>>, <<>>)>>),
          Element("Service", <<<<"0">>>>,
              <<type, Element("URI", <<>>,
                          <<Text(ProviderEndpoint), Comment, Text(other_endpoint)>>)>>) }

RECURSIVE SeqsUpTo(_, _)
SeqsUpTo(S, n) ==
    IF n = 0 THEN {<<>>}
    ELSE LET shorter == SeqsUpTo(S, n - 1)
         IN  shorter \cup {Append(q, x) : q \in {r \in shorter : Len(r) = n - 1}, x \in S}

\* The documents: a text that is not XML, and the combinations of a list of
\* namespace declarations of the root element (in document order) with a
\* root element.  The root elements are those with one XRD of at most
\* MaxServices Service elements, one without children, one with two XRD
\* elements and one whose only child is not an XRD.
Documents ==
    LET indent == Text(<<"\n", "    ">>)
        xrds == {Element("XRD", <<>>, <<indent>> \o q) :
                    q \in SeqsUpTo(ServiceElements, MaxServices)}
        steam ==
            Element("XRD", <<>>,
                <<indent,
                  Element("Service", <<<<"0">>>>,
                      <<indent, Element("Type", <<>>, <<Text(OPENID_PROVIDER_IDENTIFIER)>>),
                        indent, Element("URI", <<>>, <<Text(ProviderEndpoint)>>), indent>>)>>)
        roots ==
            {Element("XRDS", <<>>, <<indent, x, indent>>) : x \in xrds}
            \cup { Element("XRDS", <<>>, <<>>),
                   Element("XRDS", <<>>, <<steam, steam>>),
                   Element("XRDS", <<>>, <<Element("Service", <<>>, steam.children)>>) }
        declarations ==
            { <<Namespace(<<"xrds">>, NAMESPACE_XRDS), Namespace(<<>>, NAMESPACE_DEFAULT)>>,
              <<Namespace(<<>>, NAMESPACE_DEFAULT), Namespace(<<"xrds">>, NAMESPACE_XRDS)>>,
              <<Namespace(<<>>, NAMESPACE_DEFAULT)>>,
              <<Namespace(<<"xrds">>, NAMESPACE_XRDS)>>,
              <<Namespace(<<"xrds">>, NAMESPACE_XRDS), Namespace(<<>>, NAMESPACE_DEFAULT),
                Namespace(<<"xsi">>, "http://www.w3.org/2001/XMLSchema-instance")>>,
              <<Namespace(<<"xrds">>, NAMESPACE_XRDS), Namespace(<<>>, NAMESPACE_DEFAULT),
                Namespace(<<"openid">>, "http://openid.net/xmlns/1.0")>>,
              <<Namespace(<<"xrds">>, NAMESPACE_DEFAULT), Namespace(<<>>, NAMESPACE_XRDS)>>,
              <<Namespace(<<"xrds">>, NAMESPACE_XRDS), Namespace(<<>>, "xri://$xrd*($v*1.0)")>>,
              <<Namespace(<<"xsi">>, NAMESPACE_XRDS), Namespace(<<>>, NAMESPACE_DEFAULT)>> }
    IN  {[well_formed |-> TRUE, namespaces |-> n, root |-> r] : n \in declarations, r \in roots}
        \cup {[well_formed |-> FALSE, namespaces |-> <<>>, root |-> Comment]}

InitDiscovery ==
    /\ served = 0
    /\ nonces = EmptyMap
    /\ generated = {}
    /\ now = 0
    /\ session = [s \in Sessions |-> Anonymous]
    /\ req = [h \in Handlers |-> Idle]
    /\ calls = NoCalls
    /\ \E xml \in Documents : last = [op |-> "none", xml |-> xml, res |-> DiscoveryError]

\* Provider::from_xml(&xml) in SteamState::new
ApplyFromXml ==
    /\ last.op = "none"
    /\ last' = [last EXCEPT !.op = "from_xml", !.res = from_xml(last.xml)]
    /\ UNCHANGED <<served, nonces, generated, now, session, req, calls>>

\* parse_xml(xml)
ApplyParseXml ==
    /\ last.op = "none"
    /\ last' = [last EXCEPT !.op = "parse_xml", !.res = parse_xml(last.xml)]
    /\ UNCHANGED <<served, nonces, generated, now, session, req, calls>>

NextDiscovery == ApplyFromXml \/ ApplyParseXml

SpecDiscovery == InitDiscovery /\ [][NextDiscovery]_vars

(***************************************************************************)
(* src/openid/util/key_values.rs and src/openid/util/key_values/de.rs:     *)
(* the key-value form codec                                                *)
(***************************************************************************)

\* HashMap::new
NoPairs == [k \in {} |-> <<>>]

hash_map_insert_keep_first(map, key, value) ==
    [k \in DOMAIN map \cup {key} |-> IF k \in DOMAIN map THEN map[k] ELSE value]

\* HashMap::insert: the value replaces the one the key had
hash_map_insert(map, key, value) ==
    [k \in DOMAIN map \cup {key} |-> IF k = key THEN value ELSE map[k]]

split_terminator_keep_empty(s, c) == split(s, c)

\* str::split_terminator(c): the pieces of split, without the last when it
\* is empty
split_terminator(s, c) ==
    LET pieces == split(s, c)
    IN  IF pieces[Len(pieces)] = <<>> THEN SubSeq(pieces, 1, Len(pieces) - 1) ELSE pieces

KvError(err) == [ok |-> FALSE, err |-> err, map |-> NoPairs]

\* the loop of KeyValues::from_str over the lines, from line i on
RECURSIVE from_str_lines(_, _, _)
from_str_lines(lines, i, map) ==
    IF i > Len(lines) THEN [ok |-> TRUE, err |-> "", map |-> map]
    ELSE LET kv == split_once(lines[i], ":")
         IN  IF ~kv[1] THEN KvError("encountered line without colon")
             ELSE IF kv[2] \in DOMAIN map THEN KvError("key is defined more than once")
             ELSE from_str_lines(lines, i + 1, hash_map_insert(map, kv[2], kv[3]))

\* <KeyValues as FromStr>::from_str
KeyValues_from_str(s) == from_str_lines(split_terminator(s, "\n"), 1, NoPairs)

\* <KeyValues as ToString>::to_string; iter is the order in which the HashMap
\* hands out its keys
RECURSIVE to_string(_, _)
to_string(map, iter) ==
    IF iter = <<>> THEN <<>>
    ELSE iter[1] \o <<":">> \o map[iter[1]] \o <<"\n">> \o to_string(map, Tail(iter))

\* Deserializer::consume_key: the error (or ""), the text and the
\* deserializer after the call
consume_key(self) ==
    IF self.consumed_key THEN [err |-> "ExpectedValue", val |-> <<>>, de |-> self]
    ELSE LET kr == split_once(self.inner, ":")
         IN  IF ~kr[1] THEN [err |-> "ExpectedColon", val |-> <<>>, de |-> self]
             ELSE [err |-> "", val |-> kr[2],
                   de |-> [inner |-> kr[3], consumed_key |-> TRUE]]

\* Deserializer::consume_value
consume_value(self) ==
    IF ~self.consumed_key THEN consume_key(self)
    ELSE LET vr == split_once(self.inner, "\n")
         IN  IF ~vr[1] THEN [err |-> "Eof", val |-> <<>>, de |-> self]
             ELSE [err |-> "", val |-> vr[2],
                   de |-> [inner |-> vr[3], consumed_key |-> FALSE]]

\* KeyValueMapAccess::next_key_seed; the seed of a map's String key calls
\* deserialize_string, which is consume_value, the seed of a struct's field
\* calls deserialize_identifier, which is consume_key
next_key_seed(de, seed) ==
    IF de.inner = <<>> THEN [err |-> "", some |-> FALSE, val |-> <<>>, de |-> de]
    ELSE IF find_from(de.inner, ":", 1) = 0
    THEN [err |-> "ExpectedColon", some |-> FALSE, val |-> <<>>, de |-> de]
    ELSE LET key == IF seed = "identifier" THEN consume_key(de) ELSE consume_value(de)
         IN  [err |-> key.err, some |-> TRUE, val |-> key.val, de |-> key.de]

\* KeyValueMapAccess::next_value_seed with the seed of a String or of an
\* ignored value: both call deserialize_str, which is consume_value
next_value_seed(de) ==
    IF find_from(de.inner, "\n", 1) = 0
    THEN [err |-> "ExpectedNewline", val |-> <<>>, de |-> de]
    ELSE consume_value(de)

\* The visitor of HashMap<String, String>: every entry is inserted
RECURSIVE visit_map(_, _)
visit_map(de, values) ==
    LET key == next_key_seed(de, "string")
    IN  IF key.err # "" THEN KvError(key.err)
        ELSE IF ~key.some THEN [ok |-> TRUE, err |-> "", map |-> values]
        ELSE LET value == next_value_seed(key.de)
             IN  IF value.err # "" THEN KvError(value.err)
                 ELSE visit_map(value.de, hash_map_insert(values, key.val, value.val))

\* from_str::<HashMap<String, String>>, on Deserializer::from_str(s)
from_str_HashMap(s) == visit_map([inner |-> s, consumed_key |-> FALSE], NoPairs)

\* The visitor #[derive(Deserialize)] gives a struct with String fields: a
\* field that comes twice and a field that does not come are errors, the
\* value of an unknown key is read and dropped
RECURSIVE visit_struct(_, _, _)
visit_struct(de, fields, values) ==
    LET key == next_key_seed(de, "identifier")
    IN  IF key.err # "" THEN KvError(key.err)
        ELSE IF ~key.some
        THEN IF DOMAIN values = fields THEN [ok |-> TRUE, err |-> "", map |-> values]
             ELSE KvError("missing field")
        ELSE IF key.val \in fields /\ key.val \in DOMAIN values THEN KvError("duplicate field")
        ELSE LET value == next_value_seed(key.de)
             IN  IF value.err # "" THEN KvError(value.err)
                 ELSE IF key.val \in fields
                 THEN visit_struct(value.de, fields, hash_map_insert(values, key.val, value.val))
                 ELSE visit_struct(value.de, fields, values)

\* from_str::<Test> for the struct Test { a } of the tests
from_str_Test(s) == visit_struct([inner |-> s, consumed_key |-> FALSE], {<<"a">>}, NoPairs)

(***************************************************************************)
(* SpecKeyValues: the decoders applied to one text, which is drawn or is   *)
(* the encoding of a drawn map                                             *)
(***************************************************************************)

\* Largest number of tokens of a drawn text.
MaxTextLen == 5

\* Largest number of entries of a drawn map.
MaxPairs == 2

\* The drawn texts: those of at most MaxTextLen tokens, a token being a run
\* of plain characters or one of the two delimiters of the form, and bodies
\* of the provider's answer: the one of the test of validate.rs, the same
\* without its last newline, with characters after it, with a second
\* newline and with is_valid given twice
TextInputs ==
    SeqsUpTo({"a", "b", ":", "\n"}, MaxTextLen)
    \cup { BodyValid,
           SubSeq(BodyValid, 1, Len(BodyValid) - 1),
           BodyValid \o <<"a">>,
           BodyValid \o <<"\n">>,
           BodyInvalid \o <<"is_valid", ":", "true", "\n">>,
           SubSeq(BodyInvalid, 1, Len(BodyInvalid) - 1) }

\* The drawn maps: at most MaxPairs entries, keys and values without a
\* newline; one key and two values hold a colon
MapInputs ==
    LET keys == {<<>>, <<"a">>, <<"b">>, <<"a", "b">>, <<"a", ":", "b">>}
        values == {<<>>, <<"a">>, <<":">>, <<"b", ":", "a">>}
    IN  UNION {[d -> values] : d \in {k \in SUBSET keys : Cardinality(k) <= MaxPairs}}

\* The orders in which a HashMap can hand out its keys
IterationOrders(map) ==
    {q \in SeqsUpTo(DOMAIN map, Cardinality(DOMAIN map)) :
        /\ Len(q) = Cardinality(DOMAIN map)
        /\ \A i, j \in 1..Len(q) : q[i] = q[j] => i = j}

NoDecoding ==
    [op |-> "none", map |-> NoPairs, encoded |-> FALSE, ready |-> FALSE, text |-> <<>>,
     res |-> KvError("")]

InitKeyValues ==
    /\ served = 0
    /\ nonces = EmptyMap
    /\ generated = {}
    /\ now = 0
    /\ session = [s \in Sessions |-> Anonymous]
    /\ req = [h \in Handlers |-> Idle]
    /\ calls = NoCalls
    /\ \/ \E t \in TextInputs : last = [NoDecoding EXCEPT !.text = t, !.ready = TRUE]
       \/ \E m \in MapInputs : last = [NoDecoding EXCEPT !.map = m]

\* KeyValues(map).to_string()
ApplyToString ==
    /\ ~last.ready
    /\ \E iter \in IterationOrders(last.map) :
          last' = [last EXCEPT !.text = to_string(last.map, iter),
                               !.encoded = TRUE, !.ready = TRUE]
    /\ UNCHANGED <<served, nonces, generated, now, session, req, calls>>

\* KeyValues::from_str(text)
ApplyKeyValuesFromStr ==
    /\ last.ready /\ last.op = "none"
    /\ last' = [last EXCEPT !.op = "KeyValues::from_str", !.res = KeyValues_from_str(last.text)]
    /\ UNCHANGED <<served, nonces, generated, now, session, req, calls>>

\* from_str::<HashMap<String, String>>(text)
ApplyFromStrHashMap ==
    /\ last.ready /\ last.op = "none"
    /\ last' = [last EXCEPT !.op = "from_str::<HashMap>", !.res = from_str_HashMap(last.text)]
    /\ UNCHANGED <<served, nonces, generated, now, session, req, calls>>

\* from_str::<Test>(text)
ApplyFromStrTest ==
    /\ last.ready /\ last.op = "none"
    /\ last' = [last EXCEPT !.op = "from_str::<Test>", !.res = from_str_Test(last.text)]
    /\ UNCHANGED <<served, nonces, generated, now, session, req, calls>>

\* parse_key_value_form(&text) in verify_against_provider
ApplyParseKeyValueForm ==
    /\ last.ready /\ last.op = "none"
    /\ last' = [last EXCEPT !.op = "parse_key_value_form",
                            !.res = parse_key_value_form(last.text)]
    /\ UNCHANGED <<served, nonces, generated, now, session, req, calls>>

NextKeyValues ==
    \/ ApplyToString
    \/ ApplyKeyValuesFromStr
    \/ ApplyFromStrHashMap
    \/ ApplyFromStrTest
    \/ ApplyParseKeyValueForm

SpecKeyValues == InitKeyValues /\ [][NextKeyValues]_vars

(***************************************************************************)
(* src/openid/comma_separated.rs, src/openid/util/comma_separated.rs and   *)
(* src/openid/util/comma_separated_impl/de.rs: the comma-separated list    *)
(* codec. A text is a sequence of tokens, "," being the delimiter.         *)
(***************************************************************************)

CsError(err) == [ok |-> FALSE, panic |-> FALSE, err |-> err, list |-> <<>>]

CsOk(list) == [ok |-> TRUE, panic |-> FALSE, err |-> "", list |-> list]

\* <CommaSeparated<T> as ToString>::to_string of util/comma_separated.rs:
\* the first element, then a comma and the element for every other one
CommaSeparatedT_to_string(self) ==
    LET RECURSIVE rest(_)
        rest(iter) == IF iter = <<>> THEN <<>>
                      ELSE <<",">> \o Head(iter) \o rest(Tail(iter))
    IN  IF self = <<>> THEN <<>> ELSE Head(self) \o rest(Tail(self))

\* <CommaSeparated<T> as FromStr>::from_str of util/comma_separated.rs with
\* T = String, whose parse does not fail
CommaSeparatedT_from_str(s) ==
    IF s = <<>> THEN CsOk(<<>>) ELSE CsOk(split(s, ","))

\* <CommaSeparated as ToString>::to_string of openid/comma_separated.rs:
\* slice::join(",")
CommaSeparated_to_string(self) ==
    LET RECURSIVE join(_)
        join(slice) == IF Len(slice) = 1 THEN slice[1]
                       ELSE slice[1] \o <<",">> \o join(Tail(slice))
    IN  IF self = <<>> THEN <<>> ELSE join(self)

\* <CommaSeparated as FromStr>::from_str of openid/comma_separated.rs
CommaSeparated_from_str(s) == CsOk(split(s, ","))

\* Deserializer::consume_value of comma_separated_impl/de.rs: the error (or
\* ""), the value and the input left, which starts at the comma
cs_consume_value(inner) ==
    IF inner = <<>> THEN [err |-> "Eof", val |-> <<>>, inner |-> inner]
    ELSE LET index == find_from(inner, ",", 1)
         IN  IF index = 0 THEN [err |-> "", val |-> inner, inner |-> <<>>]
             ELSE [err |-> "", val |-> SubSeq(inner, 1, index - 1),
                   inner |-> SubSeq(inner, index, Len(inner))]

\* CommaSeparatedSeqAccess::next_element_seed with the seed of a String,
\* which calls deserialize_string and so consume_value
next_element_seed(self) ==
    IF self.inner = <<>> THEN [err |-> "", some |-> FALSE, val |-> <<>>, de |-> self]
    ELSE LET inner == IF self.is_first THEN self.inner ELSE Tail(self.inner)
             value == cs_consume_value(inner)
         IN  [err |-> value.err, some |-> TRUE, val |-> value.val,
              de |-> [inner |-> value.inner, is_first |-> FALSE]]

\* The visitor of Vec<String>: the elements are pushed until there is none
RECURSIVE visit_seq(_, _)
visit_seq(access, values) ==
    LET element == next_element_seed(access)
    IN  IF element.err # "" THEN CsError(element.err)
        ELSE IF ~element.some THEN CsOk(values)
        ELSE visit_seq(element.de, Append(values, element.val))

\* from_str::<Vec<String>> of comma_separated_impl/de.rs: deserialize_seq
from_str_Vec(s) == visit_seq([inner |-> s, is_first |-> TRUE], <<>>)

\* The target shapes a caller of from_str::<T> can ask for, by the method of
\* serde::Deserializer that T's Deserialize calls
TargetShapes == {"seq", "map", "struct", "enum", "tuple", "tuple_struct", "unit_struct"}

\* from_str::<T> of comma_separated_impl/de.rs by the shape of T:
\* deserialize_struct and deserialize_enum are todo!(), which panics; the
\* &'static str of NotImplemented names the method
comma_separated_from_str(shape, s) ==
    CASE shape = "seq" -> from_str_Vec(s)
      [] shape \in {"map", "tuple", "tuple_struct", "unit_struct"} -> CsError("NotImplemented")
      [] shape \in {"struct", "enum"} ->
            [ok |-> FALSE, panic |-> TRUE, err |-> "", list |-> <<>>]

\* from_str::<T> of key_values/de.rs by the shape of T: a map is a
\* HashMap<String, String>, a struct the Test { a } of the tests
key_values_from_str(shape, s) ==
    CASE shape = "map" ->
            LET r == from_str_HashMap(s) IN IF r.ok THEN CsOk(<<>>) ELSE CsError(r.err)
      [] shape = "struct" ->
            LET r == from_str_Test(s) IN IF r.ok THEN CsOk(<<>>) ELSE CsError(r.err)
      [] shape \in {"seq", "enum", "tuple", "tuple_struct", "unit_struct"} ->
            CsError("NotImplemented")

(***************************************************************************)
(* SpecCommaSeparated: a drawn list is encoded and the text decoded        *)
(***************************************************************************)

\* Largest number of elements of a drawn list.
MaxListLen == 3

\* The drawn lists: elements without a comma, the empty string among them
ListInputs == SeqsUpTo({<<>>, <<"a">>, <<"b">>, <<"a", "b">>}, MaxListLen)

NoList ==
    [op |-> "none", list |-> <<>>, encoder |-> "none", text |-> <<>>, shape |-> "none",
     res |-> CsError("")]

InitCommaSeparated ==
    /\ served = 0
    /\ nonces = EmptyMap
    /\ generated = {}
    /\ now = 0
    /\ session = [s \in Sessions |-> Anonymous]
    /\ req = [h \in Handlers |-> Idle]
    /\ calls = NoCalls
    /\ \E l \in ListInputs : last = [NoList EXCEPT !.list = l]

\* CommaSeparated::<String>(list).to_string() of util/comma_separated.rs
ApplyCommaSeparatedTToString ==
    /\ last.encoder = "none"
    /\ last' = [last EXCEPT !.encoder = "util", !.text = CommaSeparatedT_to_string(last.list)]
    /\ UNCHANGED <<served, nonces, generated, now, session, req, calls>>

\* CommaSeparated(list).to_string() of openid/comma_separated.rs
ApplyCommaSeparatedToString ==
    /\ last.encoder = "none"
    /\ last' = [last EXCEPT !.encoder = "openid", !.text = CommaSeparated_to_string(last.list)]
    /\ UNCHANGED <<served, nonces, generated, now, session, req, calls>>

\* CommaSeparated::<String>::from_str(text) of util/comma_separated.rs
ApplyCommaSeparatedTFromStr ==
    /\ last.encoder = "util" /\ last.op = "none"
    /\ last' = [last EXCEPT !.op = "CommaSeparated<T>::from_str",
                            !.res = CommaSeparatedT_from_str(last.text)]
    /\ UNCHANGED <<served, nonces, generated, now, session, req, calls>>

\* CommaSeparated::from_str(text) of openid/comma_separated.rs
ApplyCommaSeparatedFromStr ==
    /\ last.encoder = "openid" /\ last.op = "none"
    /\ last' = [last EXCEPT !.op = "CommaSeparated::from_str",
                            !.res = CommaSeparated_from_str(last.text)]
    /\ UNCHANGED <<served, nonces, generated, now, session, req, calls>>

\* from_str::<Vec<String>>(text) of comma_separated_impl/de.rs
ApplyFromStrVec ==
    /\ last.encoder # "none" /\ last.op = "none"
    /\ last' = [last EXCEPT !.op = "from_str::<Vec>", !.res = from_str_Vec(last.text)]
    /\ UNCHANGED <<served, nonces, generated, now, session, req, calls>>

\* from_str::<T>(text) of comma_separated_impl/de.rs, T of any shape
ApplyCommaSeparatedFromStrShape ==
    /\ last.encoder # "none" /\ last.op = "none"
    /\ \E shape \in TargetShapes :
          last' = [last EXCEPT !.op = "comma_separated::from_str::<T>", !.shape = shape,
                               !.res = comma_separated_from_str(shape, last.text)]
    /\ UNCHANGED <<served, nonces, generated, now, session, req, calls>>

\* from_str::<T>(text) of key_values/de.rs, T of any shape
ApplyKeyValuesFromStrShape ==
    /\ last.encoder # "none" /\ last.op = "none"
    /\ \E shape \in TargetShapes :
          last' = [last EXCEPT !.op = "key_values::from_str::<T>", !.shape = shape,
                               !.res = key_values_from_str(shape, last.text)]
    /\ UNCHANGED <<served, nonces, generated, now, session, req, calls>>

NextCommaSeparated ==
    \/ ApplyCommaSeparatedFromStrShape
    \/ ApplyKeyValuesFromStrShape
    \/ ApplyCommaSeparatedTToString
    \/ ApplyCommaSeparatedToString
    \/ ApplyCommaSeparatedTFromStr
    \/ ApplyCommaSeparatedFromStr
    \/ ApplyFromStrVec

SpecCommaSeparated == InitCommaSeparated /\ [][NextCommaSeparated]_vars

(***************************************************************************)
(* SpecVerifyResponse: parse_key_value_form of src/openid/validate.rs      *)
(* applied to one body of the provider's re-verification response          *)
(***************************************************************************)

\* Largest number of lines of a drawn body.
MaxLines == 2

\* The drawn lines: the two fields with a good and with a bad value, an
\* unknown field, a line without a colon, an empty line and a blank one
LineInputs ==
    { <<"ns", ":">> \o OPENID_AUTH_NAMESPACE,
      <<"ns", ":", "http", ":", "//openid.net/signon/1.1">>,
      <<"is_valid", ":", "true">>,
      <<"is_valid", ":", "false">>,
      <<"is_valid", ":", "1">>,
      <<"is_valid", ":">>,
      <<"mode", ":", "id_res">>,
      <<"is_valid">>,
      <<>>,
      <<" ">> }

\* The drawn bodies: at most MaxLines lines, each followed by a newline, and
\* the same without the last newline
BodyInputs ==
    LET RECURSIVE body(_)
        body(lines) == IF lines = <<>> THEN <<>>
                       ELSE Head(lines) \o <<"\n">> \o body(Tail(lines))
        texts == {body(lines) : lines \in SeqsUpTo(LineInputs, MaxLines)}
    IN  texts \cup {SubSeq(t, 1, Len(t) - 1) : t \in texts \ {<<>>}}

InitVerifyResponse ==
    /\ served = 0
    /\ nonces = EmptyMap
    /\ generated = {}
    /\ now = 0
    /\ session = [s \in Sessions |-> Anonymous]
    /\ req = [h \in Handlers |-> Idle]
    /\ calls = NoCalls
    /\ \E t \in BodyInputs : last = [NoDecoding EXCEPT !.text = t, !.ready = TRUE]

SpecVerifyResponse == InitVerifyResponse /\ [][ApplyParseKeyValueForm]_vars

(***************************************************************************)
(* Properties                                                              *)
(***************************************************************************)

\* handler h takes a step
Acts(h) == req'[h] # req[h]

\* the numeric user id an assertion's claimed_id carries
ClaimedUserId(a) == DecimalValue(Tail(a.claimed_id))

\* C1: a text returned by insert_new passes validate_and_remove at most once:
\* after any validate_and_remove(t) the registry no longer holds t, a call on a
\* present, unexpired t returns Ok, and every call after the first returns Invalid.
C1_ConsumedAtMostOnce ==
    /\ \A n \in NonceText : calls[n] <= 1
    /\ last.op = "validate_and_remove" =>
          /\ last.arg \notin DOMAIN nonces
          /\ last.again => last.res = "Invalid"
          /\ (last.arg \in DOMAIN last.before /\ ~is_expired(last.before[last.arg], last.at))
                => last.res = "Ok"
          /\ last.res = "Ok" => last.arg \in DOMAIN last.before

C1_Witness ==
    /\ last.op = "validate_and_remove"
    /\ last.again
    /\ last.res = "Invalid"
    /\ last.arg \in NonceText
    /\ calls[last.arg] = 1

\* C2: of two callbacks in flight that carry the same custom_nonce at most one
\* gets Ok from validate_and_remove, and no text is ever consumed twice.
C2_OneConcurrentConsumer ==
    /\ \A n \in NonceText : calls[n] <= 1
    /\ \A h1, h2 \in Handlers :
          (/\ h1 # h2
           /\ req[h1].kind = "callback"
           /\ req[h2].kind = "callback"
           /\ req[h1].custom_nonce = req[h2].custom_nonce)
          => ~(req[h1].nonce_res = "Ok" /\ req[h2].nonce_res = "Ok")

C2_Witness ==
    \E h1, h2 \in Handlers :
        /\ h1 # h2
        /\ req[h1].kind = "callback"
        /\ req[h2].kind = "callback"
        /\ req[h1].state.tag = "Redirected"
        /\ req[h1].state = req[h2].state
        /\ req[h1].custom_nonce = req[h1].state.nonce
        /\ req[h2].custom_nonce = req[h1].custom_nonce
        /\ req[h1].nonce_res = "Ok"
        /\ req[h2].nonce_res = "Invalid"

\* what holds of a callback's record in every state
C3_State(h) ==
    /\ (req[h].generic # "none" \/ req[h].posted # NoAssertion) =>
          /\ req[h].nonce_res = "Ok"
          /\ req[h].state.tag # "Anonymous"
          /\ req[h].state.tag = "Redirected" => req[h].state.nonce = req[h].custom_nonce
          /\ req[h].custom_nonce \notin DOMAIN nonces
    /\ req[h].verify = "valid" =>
          /\ req[h].generic = "Ok"
          /\ req[h].specific = "Ok"
          /\ req[h].pc \in {"authenticated", "respond"}
          /\ req[h].state = Authenticated(ClaimedUserId(req[h].assertion))
          /\ req[h].pc = "respond" => req[h].http = 200

\* C3: a callback validates and re-verifies only after it has consumed the
\* session's nonce; when consumption, both validations and the re-verification
\* (is_valid = true) succeed, the request's session is Authenticated(id) with id
\* the user id of claimed_id, and the reply stores exactly that.
C3_CallbackAuthenticates ==
    /\ [](\A h \in Handlers : C3_State(h))
    /\ [][\A h \in Handlers :
            (req[h].verify = "valid" /\ req[h].pc = "respond" /\ Acts(h))
            => session'[req[h].sess] = Authenticated(ClaimedUserId(req[h].assertion))]_vars

C3_Witness ==
    /\ session["s1"] = Authenticated(7)
    /\ \A h \in Handlers : req[h].pc = "idle"

\* a callback whose custom_nonce is not its session's nonce
C4_Case(h) ==
    /\ req[h].kind = "callback"
    /\ req[h].state.tag = "Redirected"
    /\ req[h].custom_nonce # req[h].state.nonce

\* C4: a callback on a session that is Redirected(n) whose custom_nonce is not
\* n is answered 400, and it changes neither the registry nor the session: n
\* is not consumed and the session stays Redirected(n).
C4_MismatchRejected ==
    [][\A h \in Handlers :
          (C4_Case(h) /\ Acts(h)) =>
             /\ nonces' = nonces
             /\ session' = session
             /\ req[h].pc = "loaded" =>
                   /\ req'[h].pc = "respond"
                   /\ req'[h].http = 400
                   /\ req'[h].state = req[h].state
                   /\ req'[h].status = "Unchanged"
                   /\ req'[h].nonce_res = "none"]_vars

C4_Witness ==
    \E h \in Handlers :
        /\ C4_Case(h)
        /\ req[h].pc = "respond"
        /\ req[h].http = 400
        /\ session[req[h].sess] = req[h].state
        /\ req[h].state.nonce \in DOMAIN nonces
        /\ req[h].custom_nonce \in DOMAIN nonces

\* C5: the re-verification POST is sent only after validate and
\* validate_steam have both returned Ok; a callback for which either fails
\* (claimed_id # identity, say) is answered 400 and posts nothing.
C5_PostOnlyAfterValidation ==
    \A h \in Handlers :
        /\ req[h].posted # NoAssertion =>
              /\ req[h].generic = "Ok"
              /\ req[h].specific = "Ok"
              /\ validate(req[h].assertion, ProviderEndpoint) = "Ok"
              /\ req[h].assertion.claimed_id = req[h].assertion.identity
        /\ (req[h].generic \notin {"none", "Ok"} \/ req[h].specific \notin {"none", "Ok"}) =>
              /\ req[h].posted = NoAssertion
              /\ req[h].verify = "none"
              /\ req[h].pc = "respond"
              /\ req[h].http = 400
              /\ req[h].state.tag # "Authenticated"

C5_Witness ==
    \E h \in Handlers :
        /\ req[h].kind = "callback"
        /\ req[h].nonce_res = "Ok"
        /\ req[h].assertion.claimed_id # req[h].assertion.identity
        /\ req[h].generic = "claimed identity doesn't match identity"
        /\ req[h].posted = NoAssertion
        /\ req[h].http = 400

\* what holds of a callback that was answered is_valid:false
C6_State(h) ==
    req[h].verify = "invalid" =>
        /\ req[h].pc = "respond"
        /\ req[h].http = 400
        /\ req[h].state.tag = "Redirected"
        /\ req[h].status = "Unchanged"

\* C6: an answer of the provider with is_valid:false parses without error;
\* the callback that gets it is answered 400, its session is not
\* Authenticated and its reply leaves the stored session as it is.
C6_InvalidRejectsLogin ==
    /\ [](/\ verify_against_provider(BodyInvalid).ok
          /\ ~verify_against_provider(BodyInvalid).is_valid
          /\ \A h \in Handlers : C6_State(h))
    /\ [][\A h \in Handlers :
            (req[h].verify = "invalid" /\ Acts(h)) => session' = session]_vars

C6_Witness ==
    \E h \in Handlers :
        /\ req[h].verify = "invalid"
        /\ req[h].posted # NoAssertion
        /\ req[h].http = 400
        /\ session[req[h].sess].tag = "Redirected"

\* the step of start_steam_auth on an Anonymous session
C7_Step(h) ==
    \E n \in NonceText :
        /\ n \notin DOMAIN nonces
        /\ n \notin generated
        /\ nonces' = MapInsert(nonces, n, now)
        /\ req'[h].pc = "respond"
        /\ req'[h].state = Redirected(n)
        /\ req'[h].status = "Changed"
        /\ req'[h].http = 307
        /\ req'[h].location.url = ProviderEndpoint
        /\ req'[h].location.return_to = with_custom_nonce(RETURN_TO, n)

\* C7: start login on an Anonymous session adds exactly one new text to the
\* registry, makes the session Redirected(that text) and redirects to the
\* provider with openid.return_to = RETURN_TO plus custom_nonce = that text;
\* the reply stores the Redirected session.
C7_StartLoginIssuesNonce ==
    [][\A h \in Handlers :
          /\ (req[h].kind = "login" /\ req[h].pc = "loaded"
                /\ req[h].state.tag = "Anonymous" /\ Acts(h)) => C7_Step(h)
          /\ (req[h].kind = "login" /\ req[h].pc = "respond"
                /\ req[h].http = 307 /\ req[h].state.tag = "Redirected" /\ Acts(h))
                => session'[req[h].sess] = req[h].state]_vars

C7_Witness ==
    \E h \in Handlers, n \in NonceText :
        /\ req[h].kind = "login"
        /\ req[h].pc = "respond"
        /\ generated = {n}
        /\ DOMAIN nonces = {n}
        /\ req[h].state = Redirected(n)
        /\ req[h].location.return_to.custom_nonce = n
        /\ session[req[h].sess] = Anonymous

\* start login on a Redirected session, nothing else in flight
C8_Case(h) ==
    /\ req[h].kind = "login"
    /\ req[h].pc = "loaded"
    /\ req[h].state.tag = "Redirected"
    /\ session[req[h].sess] = req[h].state
    /\ \A g \in Handlers \ {h} : req[g].pc = "idle"

\* C8: start login on a session that is Redirected(n), with no other request
\* in flight, replaces n: afterwards n is not in the registry, a new text n'
\* is, the session is Redirected(n') and the redirect carries n'.
C8_StartLoginReplaces ==
    [][\A h \in Handlers :
          (C8_Case(h) /\ Acts(h)) =>
             /\ req[h].state.nonce \notin DOMAIN nonces'
             /\ \E m \in NonceText \ {req[h].state.nonce} :
                   /\ m \in DOMAIN nonces'
                   /\ req'[h].state = Redirected(m)
                   /\ req'[h].http = 307
                   /\ req'[h].location.return_to.custom_nonce = m]_vars

\* the requests that are answered with a redirect only
C9_Case(h) ==
    \/ req[h].kind = "login" /\ req[h].state.tag = "Authenticated"
    \/ req[h].kind = "callback" /\ req[h].state.tag \in {"Authenticated", "Anonymous"}

\* C9: start login and callback on an Authenticated session, and callback on
\* an Anonymous session, answer with a redirect and change neither the
\* session nor the registry, whatever custom_nonce the request carries.
C9_RedirectOnly ==
    [][\A h \in Handlers :
          /\ (C9_Case(h) /\ req[h].pc = "loaded" /\ Acts(h)) =>
                /\ nonces' = nonces
                /\ session' = session
                /\ req'[h].pc = "respond"
                /\ req'[h].http = 307
                /\ req'[h].location.url \in {<<"/api/health/cookies">>, <<"/api/auth/steam/login">>}
                /\ req'[h].state = req[h].state
                /\ req'[h].status = "Unchanged"
          /\ (C9_Case(h) /\ req[h].pc = "respond" /\ req[h].http = 307 /\ Acts(h)) =>
                /\ nonces' = nonces
                /\ session' = session]_vars

C9_Witness ==
    \E h \in Handlers :
        /\ req[h].kind = "callback"
        /\ req[h].state.tag = "Authenticated"
        /\ req[h].pc = "respond"
        /\ req[h].http = 307
        /\ req[h].custom_nonce \in DOMAIN nonces

\* C10: logout on an Authenticated session succeeds and the reply stores
\* Anonymous; logout on any other session fails ("not logged in") and leaves
\* the session as it is; neither touches the registry.
C10_LogoutOnlyWhenAuthenticated ==
    [][\A h \in Handlers :
          /\ (req[h].kind = "logout" /\ req[h].pc = "loaded" /\ Acts(h)) =>
                /\ nonces' = nonces
                /\ session' = session
                /\ req'[h].pc = "respond"
                /\ IF req[h].state.tag = "Authenticated"
                   THEN /\ req'[h].http = 307
                        /\ req'[h].state = Anonymous
                        /\ req'[h].status = "Changed"
                   ELSE /\ req'[h].http = 500
                        /\ req'[h].state = req[h].state
                        /\ req'[h].status = "Unchanged"
          /\ (req[h].kind = "logout" /\ req[h].pc = "respond" /\ Acts(h)) =>
                /\ nonces' = nonces
                /\ IF req[h].http = 307
                   THEN session' = [session EXCEPT ![req[h].sess] = Anonymous]
                   ELSE session' = session]_vars

C10_Witness ==
    \E h \in Handlers :
        /\ req[h].kind = "logout"
        /\ req[h].pc = "respond"
        /\ req[h].http = 307
        /\ req[h].state = Anonymous
        /\ session[req[h].sess].tag = "Authenticated"
        /\ DOMAIN nonces # {}

\* C11: replace(old) on a present old removes old, inserts one fresh text with
\* the current time, leaves every other entry as it was and returns the new
\* text; on an absent old it returns Invalid and the registry is unchanged.
C11_ReplaceSwapsOrFails ==
    last.op = "replace" =>
        IF last.arg \in DOMAIN last.before
        THEN /\ last.res = "Ok"
             /\ last.nonce \in NonceText
             /\ last.nonce \notin DOMAIN last.before
             /\ DOMAIN nonces = ((DOMAIN last.before) \ {last.arg}) \cup {last.nonce}
             /\ nonces[last.nonce] = last.at
             /\ \A x \in (DOMAIN nonces) \ {last.nonce} : nonces[x] = last.before[x]
        ELSE /\ last.res = "Invalid"
             /\ last.nonce = 0
             /\ nonces = last.before

C11_Witness ==
    /\ last.op = "replace"
    /\ last.res = "Ok"
    /\ last.arg \in DOMAIN last.before
    /\ last.arg \notin DOMAIN nonces
    /\ last.nonce \in DOMAIN nonces

\* C12: a replace(n) and a validate_and_remove(n) issued together on a present
\* n that stays unexpired: under every interleaving, once both have returned,
\* one returned Ok and the other Invalid, and n is no longer in the registry.
C12_ReplaceRacesConsume ==
    \A h, g \in Handlers :
        (/\ req[h].op = "replace"
         /\ req[g].op = "validate_and_remove"
         /\ req[h].arg = req[g].arg
         /\ req[h].pc = "done"
         /\ req[g].pc = "done"
         /\ req[h].arg \in DOMAIN req[h].held
         /\ ~is_expired(req[h].held[req[h].arg], now))
        => /\ {req[h].res, req[g].res} = {"Ok", "Invalid"}
           /\ req[h].arg \notin DOMAIN nonces
           /\ req[h].res = "Ok" => req[h].new \in DOMAIN nonces

C12_Witness ==
    \E h, g \in Handlers :
        /\ req[h].op = "replace"
        /\ req[g].op = "validate_and_remove"
        /\ req[h].arg = req[g].arg
        /\ req[h].arg \in DOMAIN req[h].held
        /\ req[h].pc = "done"
        /\ req[g].pc = "done"
        /\ req[h].res = "Invalid"
        /\ req[g].res = "Ok"

\* C13: validate_and_remove on a text that is in the registry and was issued
\* more than 5 minutes before the call returns Expired.
C13_ExpiresAfterFiveMinutes ==
    (/\ last.op = "validate_and_remove"
     /\ last.arg \in DOMAIN last.before
     /\ last.at - last.before[last.arg] > 5 * 60 * 1000)
    => last.res = "Expired"

\* C14: a callback whose nonce validation ends in Invalid or Expired is
\* answered 400, and that step leaves the registry and the session as they were.
C14_NonceErrorChangesNothing ==
    [][\A h \in Handlers :
          (/\ req[h].kind = "callback"
           /\ req[h].pc = "loaded"
           /\ Acts(h)
           /\ req'[h].nonce_res \in {"Invalid", "Expired"})
          => /\ req'[h].pc = "respond"
             /\ req'[h].http = 400
             /\ req'[h].state = req[h].state
             /\ req'[h].status = "Unchanged"
             /\ session' = session
             /\ nonces' = nonces]_vars

\* C15: remove_expired_nonces removes exactly the entries whose age exceeds
\* NONCE_MAX_AGE_MS and leaves every other entry with its issuance time.
C15_SweepRemovesExpiredOnly ==
    last.op = "remove_expired_nonces" =>
        /\ DOMAIN nonces =
              {x \in DOMAIN last.before : last.at - last.before[x] <= NONCE_MAX_AGE_MS}
        /\ \A x \in DOMAIN nonces : nonces[x] = last.before[x]

C15_Witness ==
    /\ last.op = "remove_expired_nonces"
    /\ \E x, y \in DOMAIN last.before :
          /\ x \notin DOMAIN nonces
          /\ y \in DOMAIN nonces
          /\ nonces[y] = last.before[y]

\* C16: validate_steam rejects an assertion whose response nonce is more than
\* 30 seconds older than the clock ("too old" when its identifiers are in
\* order) and never answers "too old" when the nonce is at most 30 seconds old.
C16_StaleAfterThirtySeconds ==
    last.op = "validate_steam" =>
        LET age == last.at - last.assertion.nonce
            same == /\ last.assertion.claimed_id = last.assertion.identity
                    /\ last.assertion.identity = <<STEAM_IDENTITY_PREFIX, "7">>
        IN  /\ age > 30 * 1000 => last.res # "Ok"
            /\ (age > 30 * 1000 /\ same) => last.res = "too old"
            /\ age <= 30 * 1000 => last.res # "too old"
            /\ (age <= 30 * 1000 /\ same) => last.res = "Ok"

C16_Witness ==
    /\ last.op = "validate_steam"
    /\ last.at - last.assertion.nonce = 40 * 1000
    /\ last.assertion.claimed_id = last.assertion.identity
    /\ last.res = "too old"

\* the names openid.signed has to list, as they appear in the list
RequiredSigned ==
    { <<"op_endpoint">>, <<"return_to">>, <<"response_nonce">>, <<"assoc_handle">>,
      <<"claimed_id">>, <<"identity">> }

\* the signed list of assertion a names every required field
CoversRequired(a) ==
    \A name \in RequiredSigned : \E j \in 1..Len(a.signed_fields) : a.signed_fields[j] = name

\* C17: validate accepts an assertion exactly when its namespace is the OpenID
\* 2.0 namespace, its mode is id_res, its op_endpoint is the provider's
\* endpoint, claimed_id equals identity, the signed list names every required
\* field and the signature is not empty.
C17_ValidateIffSixConditions ==
    last.op = "validate" =>
        (last.res = "Ok" <=>
            /\ last.assertion.namespace = <<"http", ":", "//specs.openid.net/auth/2.0">>
            /\ last.assertion.mode = <<"id_res">>
            /\ last.assertion.service_endpoint = <<"https", ":", "//steamcommunity.com/openid/login">>
            /\ last.assertion.claimed_id = last.assertion.identity
            /\ CoversRequired(last.assertion)
            /\ last.assertion.signature # <<>>)

C17_Witness ==
    /\ last.op = "validate"
    /\ last.res = "provider endpoint doesn't match"
    /\ last.assertion.claimed_id = last.assertion.identity
    /\ CoversRequired(last.assertion)
    /\ last.assertion.signature # <<>>

\* the five conditions of validate that do not concern the signed list
OtherChecksPass(a) ==
    /\ a.namespace = OPENID_AUTH_NAMESPACE
    /\ a.mode = OPENID_MODE_IDENTIFIER_RESPONSE
    /\ a.service_endpoint = ProviderEndpoint
    /\ a.claimed_id = a.identity
    /\ a.signature # <<>>

\* C18: validate rejects every assertion whose signed list lacks one of
\* op_endpoint, return_to, response_nonce, assoc_handle, claimed_id, identity
\* (the names as listed, without the "openid." prefix); a list that has them
\* all is not rejected for the other names it carries.
C18_SignedListCoversRequired ==
    last.op = "validate" =>
        /\ (\E name \in RequiredSigned :
               \A j \in 1..Len(last.assertion.signed_fields) :
                  last.assertion.signed_fields[j] # name)
              => /\ last.res # "Ok"
                 /\ OtherChecksPass(last.assertion)
                       => last.res = "fields that should be signed aren't signed"
        /\ (CoversRequired(last.assertion) /\ OtherChecksPass(last.assertion))
              => last.res = "Ok"

C18_Witness ==
    /\ last.op = "validate"
    /\ OtherChecksPass(last.assertion)
    /\ Len(last.assertion.signed_fields) = 6
    /\ <<"signed">> \in {last.assertion.signed_fields[j] : j \in 1..6}
    /\ last.res = "fields that should be signed aren't signed"

\* the user id an identifier stands for, or -1 when it stands for none
UserIdOf(x) ==
    CASE x = <<STEAM_IDENTITY_PREFIX, "7">> -> 7
      [] x = <<STEAM_IDENTITY_PREFIX, "0", "7">> -> 7
      [] x = <<STEAM_IDENTITY_PREFIX, "+", "7">> -> 7
      [] x = <<STEAM_IDENTITY_PREFIX, "8">> -> 8
      [] OTHER -> -1

OtherFields ==
    {"namespace", "service_endpoint", "claimed_id", "identity", "return_to", "nonce",
     "signed_fields", "signature"}

\* C20: the assertion posted to the provider has mode check_authentication
\* and, in every other field, the value the callback carried; the callback's
\* own assertion keeps its mode and is never modified while it is handled.
C20_PostsCopyWithModeOverwritten ==
    /\ [](\A h \in Handlers :
             req[h].posted # NoAssertion =>
                /\ req[h].posted.mode = <<"check_authentication">>
                /\ \A f \in OtherFields : req[h].posted[f] = req[h].assertion[f]
                /\ req[h].assertion.mode = <<"id_res">>)
    /\ [][\A h \in Handlers :
             (req[h].pc # "idle" /\ req'[h].pc # "idle")
                => req'[h].assertion = req[h].assertion]_vars

C20_Witness ==
    \E h \in Handlers :
        /\ req[h].kind = "callback"
        /\ req[h].posted # NoAssertion
        /\ req[h].posted # req[h].assertion
        /\ req[h].verify = "valid"

\* C21: a callback whose re-verification POST failed in transport, or came
\* back with a body that does not parse, is answered with a 5xx status; 400
\* is kept for is_valid:false and for assertions that fail validation.
C21_RemoteFailureIsServerError ==
    \A h \in Handlers :
        (req[h].pc = "respond" /\ req[h].verify = "error") => req[h].http \in 500..599

\* C22: make_auth_req_url succeeds only when realm and return_to have the
\* same scheme and the same host, and fails whenever they differ in either.
C22_RealmMatchesReturnTo ==
    last.op = "make_auth_req_url" =>
        (last.res.ok => /\ last.realm.scheme = last.return_to.scheme
                        /\ last.realm.host = last.return_to.host)

\* C23: a callback gets past the nonce check only if the session's nonce is
\* both the custom_nonce of the query and the custom_nonce inside the
\* assertion's openid.return_to.
C23_NonceInQueryAndReturnTo ==
    \A h \in Handlers :
        (req[h].kind = "callback" /\ req[h].pc = "consumed") =>
            /\ req[h].state.tag = "Redirected"
            /\ req[h].custom_nonce = req[h].state.nonce
            /\ req[h].assertion.return_to.custom_nonce = req[h].state.nonce

\* C24: when the profile lookup after a successful verification fails, the
\* callback is still answered 200, without a profile, and the session the
\* reply stores is Authenticated.
C24_ProfileFailureKeepsLogin ==
    /\ [](\A h \in Handlers :
             req[h].profile = "omitted" =>
                /\ req[h].pc = "respond"
                /\ req[h].http = 200
                /\ req[h].verify = "valid"
                /\ req[h].state = Authenticated(req[h].steam_id)
                /\ req[h].status = "Changed")
    /\ [][\A h \in Handlers :
             (req[h].profile = "omitted" /\ Acts(h))
                => session'[req[h].sess] = Authenticated(req[h].steam_id)]_vars

C24_Witness ==
    \E h \in Handlers :
        /\ req[h].kind = "callback"
        /\ req[h].profile = "omitted"
        /\ req[h].http = 200
        /\ req[h].state.tag = "Authenticated"
        /\ session[req[h].sess].tag = "Redirected"

\* The element children of a node, in document order.
ElementsOf(node) == SelectSeq(node.children, LAMBDA c : c.kind = "element")

\* The text children of a node, in document order.
TextsOf(node) == SelectSeq(node.children, LAMBDA c : c.kind = "text")

\* A discovery call has been made on the drawn document.
Discovered == last.op \in {"from_xml", "parse_xml"}

\* The endpoint of the provider that discovery returned.
ResolvedEndpoint ==
    IF last.op = "from_xml" THEN last.res.provider.service.endpoint
    ELSE last.res.provider.endpoint

\* The root element declares the default namespace and the prefix xrds with
\* the expected URIs, and nothing else.
DeclaresExpectedNamespaces ==
    /\ Len(last.xml.namespaces) = 2
    /\ \E i \in 1..2 : last.xml.namespaces[i] = [name |-> <<>>, uri |-> "xri://$xrd*($v*2.0)"]
    /\ \E i \in 1..2 : last.xml.namespaces[i] = [name |-> <<"xrds">>, uri |-> "xri://$xrds"]

\* The Service elements of the document, when its root has one XRD child.
ServicesOfDocument == ElementsOf(ElementsOf(last.xml.root)[1])

\* The URI text of a well-formed Service element.
EndpointOf(service) ==
    LET uri == CHOOSE c \in {service.children[i] : i \in DOMAIN service.children} : c.tag = "URI"
    IN  TextsOf(uri)[1].text

\* The numeric value of the priority attribute of a well-formed Service.
PriorityOf(service) == parse_i32(service.priority[1])[2]

\* The Service element has exactly the element children Type and URI, each
\* of them with exactly one text child, and the text of Type is the OpenID
\* 2.0 server identifier.
AcceptableService(service) ==
    /\ Len(ElementsOf(service)) = 2
    /\ {ElementsOf(service)[i].tag : i \in 1..2} = {"Type", "URI"}
    /\ \A i \in 1..2 : Len(TextsOf(ElementsOf(service)[i])) = 1
    /\ \A i \in 1..2 :
          ElementsOf(service)[i].tag = "Type"
             => TextsOf(ElementsOf(service)[i])[1].text
                    = <<"http", ":", "//specs.openid.net/auth/2.0/server">>

\* The document has the two namespaces, one XRD and in it several Service
\* elements, every one of them well formed and of the matching type.
SeveralWellFormedServices ==
    /\ last.xml.well_formed
    /\ DeclaresExpectedNamespaces
    /\ Len(ElementsOf(last.xml.root)) = 1
    /\ ElementsOf(last.xml.root)[1].tag = "XRD"
    /\ Len(ServicesOfDocument) >= 2
    /\ \A i \in 1..Len(ServicesOfDocument) :
          /\ ServicesOfDocument[i].tag = "Service"
          /\ ServicesOfDocument[i].priority # <<>>
          /\ parse_i32(ServicesOfDocument[i].priority[1])[1]
          /\ AcceptableService(ServicesOfDocument[i])

\* C25: discovery on a document with several well-formed Service elements of
\* the matching type succeeds and resolves the endpoint of the Service whose
\* priority is numerically lowest.
C25_LowestPriorityWins ==
    (Discovered /\ SeveralWellFormedServices)
        => /\ last.res.ok
           /\ \E i \in 1..Len(ServicesOfDocument) :
                 /\ \A j \in 1..Len(ServicesOfDocument) :
                        PriorityOf(ServicesOfDocument[i]) <= PriorityOf(ServicesOfDocument[j])
                 /\ ResolvedEndpoint = EndpointOf(ServicesOfDocument[i])

\* C26: discovery succeeds only on a document whose root element declares
\* exactly the two expected namespaces, the default one and the prefix xrds,
\* each with its expected URI; a missing, an additional or a differing
\* declaration makes it fail.
C26_NamespacesExact ==
    (Discovered /\ last.res.ok) => DeclaresExpectedNamespaces

\* A document with one XRD and one well-formed Service in it, and with one
\* more namespace declared on its root than the two expected, is rejected.
C26_Witness ==
    /\ Discovered
    /\ Len(ElementsOf(last.xml.root)) = 1
    /\ ElementsOf(last.xml.root)[1].tag = "XRD"
    /\ Len(ServicesOfDocument) = 1
    /\ ServicesOfDocument[1].tag = "Service"
    /\ ServicesOfDocument[1].priority = <<<<"0">>>>
    /\ AcceptableService(ServicesOfDocument[1])
    /\ Len(last.xml.namespaces) = 3
    /\ \E i \in 1..3 : last.xml.namespaces[i] = [name |-> <<>>, uri |-> "xri://$xrd*($v*2.0)"]
    /\ \E i \in 1..3 : last.xml.namespaces[i] = [name |-> <<"xrds">>, uri |-> "xri://$xrds"]
    /\ ~last.res.ok

Decoded ==
    last.op \in {"KeyValues::from_str", "from_str::<HashMap>", "from_str::<Test>",
                 "parse_key_value_form"}

\* The text does not end with a newline: its last record is not terminated,
\* or characters follow its last newline.
Unterminated(text) == text # <<>> /\ text[Len(text)] # "\n"

\* C28: every decoder of the key-value form, the one reading the provider's
\* re-verification response included, rejects a text whose last record is
\* not terminated by a newline and a text with characters after its last
\* newline.
C28_UnterminatedRejected ==
    (Decoded /\ Unterminated(last.text)) => ~last.res.ok

\* The lines of a text that ends with a newline.
LinesOf(text) == split(SubSeq(text, 1, Len(text) - 1), "\n")

\* The text is a document of the form: records key ':' value '\n'.
IsDocument(text) ==
    /\ text # <<>>
    /\ text[Len(text)] = "\n"
    /\ \A i \in 1..Len(LinesOf(text)) : \E j \in 1..Len(LinesOf(text)[i]) : LinesOf(text)[i][j] = ":"

\* Key and value of a record: the text before and after its first colon.
KeyOf(line) == SubSeq(line, 1, find_from(line, ":", 1) - 1)

ValueOf(line) == SubSeq(line, find_from(line, ":", 1) + 1, Len(line))

KeysOf(text) == {KeyOf(LinesOf(text)[i]) : i \in 1..Len(LinesOf(text))}

\* The value of the last record of the document with key k.
LastValueOf(text, k) ==
    LET i == CHOOSE i \in 1..Len(LinesOf(text)) :
                 /\ KeyOf(LinesOf(text)[i]) = k
                 /\ \A j \in 1..Len(LinesOf(text)) : KeyOf(LinesOf(text)[j]) = k => j <= i
    IN  ValueOf(LinesOf(text)[i])

\* The number of records of the document with key k.
Occurrences(text, k) ==
    Cardinality({i \in 1..Len(LinesOf(text)) : KeyOf(LinesOf(text)[i]) = k})

\* The text is a document in which some key occurs more than once.
HasDuplicateKey(text) ==
    IsDocument(text) /\ \E k \in KeysOf(text) : Occurrences(text, k) > 1

\* The decoded map holds, for every key of the document, the value of the
\* key's last record.
KeepsLastValues ==
    /\ DOMAIN last.res.map = KeysOf(last.text)
    /\ \A k \in KeysOf(last.text) : last.res.map[k] = LastValueOf(last.text, k)

\* C29 as stated: decoding a document in which a key occurs more than once
\* does not fail and keeps the value of the key's last occurrence.
C29_DuplicateKeyLastWins ==
    (/\ last.op \in {"KeyValues::from_str", "from_str::<HashMap>"}
     /\ HasDuplicateKey(last.text))
        => last.res.ok /\ KeepsLastValues

\* C29 amended: decoding a document in which a key occurs more than once
\* into a map with from_str keeps the value of the key's last occurrence
\* and does not fail; KeyValues::from_str fails on such a document, and so
\* does from_str into a struct when the key is one of the struct's fields.
C29_DuplicateKeyByDecoder ==
    HasDuplicateKey(last.text) =>
        /\ last.op = "from_str::<HashMap>" => last.res.ok /\ KeepsLastValues
        /\ last.op = "KeyValues::from_str" => ~last.res.ok
        /\ (last.op = "from_str::<Test>" /\ <<"a">> \in KeysOf(last.text)
                /\ Occurrences(last.text, <<"a">>) > 1)
              => ~last.res.ok

\* A key with two different values has been decoded into a map, which holds
\* the second value.
C29_Witness ==
    /\ last.op = "from_str::<HashMap>"
    /\ HasDuplicateKey(last.text)
    /\ last.res.ok
    /\ \E i, j \in 1..Len(LinesOf(last.text)) :
          /\ i < j
          /\ KeyOf(LinesOf(last.text)[i]) = KeyOf(LinesOf(last.text)[j])
          /\ ValueOf(LinesOf(last.text)[i]) # ValueOf(LinesOf(last.text)[j])
          /\ last.res.map[KeyOf(LinesOf(last.text)[j])] = ValueOf(LinesOf(last.text)[j])

\* The text is the encoding of the drawn map and a map decoder has read it.
RoundTripped ==
    last.encoded /\ last.op \in {"KeyValues::from_str", "from_str::<HashMap>"}

\* C30 as stated: for every map whose keys and values hold no newline,
\* decoding the encoding of the map gives the map.
C30_RoundTrip ==
    (/\ RoundTripped
     /\ \A k \in DOMAIN last.map :
           /\ \A i \in 1..Len(k) : k[i] # "\n"
           /\ \A i \in 1..Len(last.map[k]) : last.map[k][i] # "\n")
        => last.res.ok /\ last.res.map = last.map

\* C30 amended: for every map whose keys hold neither a colon nor a newline
\* and whose values hold no newline, decoding the encoding of the map gives
\* the map.
C30_RoundTripColonFreeKeys ==
    (/\ RoundTripped
     /\ \A k \in DOMAIN last.map :
           /\ \A i \in 1..Len(k) : k[i] \notin {":", "\n"}
           /\ \A i \in 1..Len(last.map[k]) : last.map[k][i] # "\n")
        => last.res.ok /\ last.res.map = last.map

\* A map of two entries, one of them with a colon in its value, has been
\* encoded and decoded again.
C30_Witness ==
    /\ RoundTripped
    /\ Cardinality(DOMAIN last.map) = 2
    /\ \A k \in DOMAIN last.map : \A i \in 1..Len(k) : k[i] # ":"
    /\ \E k \in DOMAIN last.map : \E i \in 1..Len(last.map[k]) : last.map[k][i] = ":"
    /\ last.res.ok
    /\ last.res.map = last.map


\* C31: for every list of comma-free strings, the empty list included,
\* decoding the encoding of the list gives the list back
C31_CommaSeparatedRoundTrip ==
    (last.op \in {"CommaSeparated<T>::from_str", "CommaSeparated::from_str", "from_str::<Vec>"})
        => (last.res.ok /\ last.res.list = last.list)

\* C32: a request to decode into an unsupported target shape (a sequence or
\* an enum in the key-value form; a map, a tuple, a struct or an enum in the
\* comma-separated form) is answered with the NotImplemented error value and
\* never with a panic
C32_UnsupportedShapeIsTypedError ==
    (\/ last.op = "key_values::from_str::<T>" /\ last.shape \in {"seq", "enum"}
     \/ /\ last.op = "comma_separated::from_str::<T>"
        /\ last.shape \in {"map", "tuple", "struct", "enum"})
        => (~last.res.panic /\ ~last.res.ok /\ last.res.err = "NotImplemented")

\* the checks of validate that assertion a violates, in the order namespace,
\* mode, op_endpoint, claimed_id = identity, signed fields, signature
Violations(a) ==
    << a.namespace # <<"http", ":", "//specs.openid.net/auth/2.0">>,
       a.mode # <<"id_res">>,
       a.service_endpoint # <<"https", ":", "//steamcommunity.com/openid/login">>,
       a.claimed_id # a.identity,
       ~CoversRequired(a),
       a.signature = <<>> >>

\* the error of each check, in the same order
ViolationErrors ==
    << "invalid value for openid namespace", "invalid mode",
       "provider endpoint doesn't match", "claimed identity doesn't match identity",
       "fields that should be signed aren't signed", "signature field is empty" >>

\* C33: validate checks namespace, mode, op_endpoint, claimed_id = identity,
\* signed fields and signature in this order and stops at the first
\* violation: the error is the one of the earliest violated check.
C33_FirstViolationReported ==
    last.op = "validate" =>
        \A k \in 1..6 :
            (/\ Violations(last.assertion)[k]
             /\ \A j \in 1..(k - 1) : ~Violations(last.assertion)[j])
                => last.res = ViolationErrors[k]

\* an assertion with a wrong mode, an incomplete signed list and an empty
\* signature is answered with the error of the mode
C33_Witness ==
    /\ last.op = "validate"
    /\ Violations(last.assertion) = <<FALSE, TRUE, FALSE, FALSE, TRUE, TRUE>>
    /\ last.res = "invalid mode"

\* C34: NonceSet::validate returns Ok exactly when the nonce is in the
\* registry and is not expired (Metadata::is_expired), and it leaves the
\* registry as it was.
C34_ValidateIffPresentAndFresh ==
    last.op = "validate" =>
        /\ last.res = "Ok" <=>
              /\ last.arg \in DOMAIN last.before
              /\ ~(last.at - last.before[last.arg] > NONCE_MAX_AGE_MS)
        /\ nonces = last.before

\* C35: whenever no request is in flight, the nonce of a session that is
\* Redirected(n) is in the registry, whatever start-login, callback and
\* logout requests came before, failed callbacks included.
C35_RedirectedNonceRegistered ==
    (\A h \in Handlers : req[h].pc = "idle") =>
        \A s \in {"s1"} :
            session[s].tag = "Redirected" => session[s].nonce \in DOMAIN nonces

\* Session s is Redirected(n) with n consumed, and every request in flight
\* was loaded with that state and has not changed it
Stuck(s) ==
    /\ session[s].tag = "Redirected"
    /\ session[s].nonce \notin DOMAIN nonces
    /\ \A h \in Handlers :
          \/ req[h].pc = "idle"
          \/ /\ req[h].pc \in {"loaded", "respond"}
             /\ req[h].sess = s
             /\ req[h].state = session[s]
             /\ req[h].status = "Unchanged"

\* No step leaves Stuck: start login fails in NonceSet::replace, a callback
\* in validate_and_remove or in the comparison of the nonces, logout in
\* "not logged in", and none of them stores a session
StuckForever == [][Stuck("s1") => Stuck("s1")']_vars

\* C36: no session gets stuck: from every reachable state, the one left by a
\* callback that matched the nonce and then failed included, some sequence
\* of start-login and callback requests leads the session to Authenticated.
\* A state that is Stuck is never left (StuckForever) and is not Authenticated,
\* so the claim says that no reachable state is Stuck.
C36_NoSessionStuck == ~Stuck("s1")

\* Handler h consumes the nonce of its callback: the session it loaded is
\* Redirected with the text of the query, the text is in the registry and
\* fresh, and the step removes it
C37_Consumes(h) ==
    (req[h].pc = "loaded" /\ req'[h].pc = "consumed") =>
        /\ req[h].kind = "callback"
        /\ req[h].state.tag = "Redirected"
        /\ req[h].state.nonce = req[h].custom_nonce
        /\ req[h].custom_nonce \in DOMAIN nonces
        /\ now - nonces[req[h].custom_nonce] <= NONCE_MAX_AGE_MS
        /\ req[h].custom_nonce \notin DOMAIN nonces'

\* Handler h gets past validation: it had consumed the nonce, the assertion
\* passes the six generic checks, both ids are the same Steam id and the
\* response nonce is at most 30 seconds old
C37_Validates(h) ==
    (req[h].pc # "validated" /\ req'[h].pc = "validated") =>
        /\ req[h].pc = "consumed"
        /\ Violations(req[h].assertion) = <<FALSE, FALSE, FALSE, FALSE, FALSE, FALSE>>
        /\ UserIdOf(req[h].assertion.claimed_id) # -1
        /\ UserIdOf(req[h].assertion.claimed_id) = UserIdOf(req[h].assertion.identity)
        /\ now - req[h].assertion.nonce <= 30000

\* Handler h turns its session into Authenticated(id): it had validated, the
\* provider answered is_valid = true and id is the id of claimed_id and of
\* identity
C37_Authenticates(h) ==
    (/\ req[h].pc # "idle"
     /\ req[h].state.tag # "Authenticated"
     /\ req'[h].state.tag = "Authenticated") =>
        /\ req[h].pc = "validated"
        /\ req'[h].verify = "valid"
        /\ req'[h].state.id = UserIdOf(req[h].assertion.claimed_id)
        /\ req'[h].state.id = UserIdOf(req[h].assertion.identity)

\* The stored session s becomes Authenticated: the reply of a callback that
\* went through the three steps stores it
C37_Stores(s) ==
    (session'[s] # session[s] /\ session'[s].tag = "Authenticated") =>
        \E h \in Handlers :
            /\ req[h].pc = "respond" /\ req'[h].pc = "idle"
            /\ req[h].sess = s
            /\ req[h].kind = "callback"
            /\ req[h].nonce_res = "Ok"
            /\ calls[req[h].custom_nonce] = 1
            /\ req[h].generic = "Ok" /\ req[h].specific = "Ok"
            /\ req[h].verify = "valid"
            /\ session'[s] = req[h].state

\* C37: a session is Authenticated(id) only through a callback that carried
\* the session's nonce, consumed it from the registry, passed the generic and
\* the Steam validation (the 30-second freshness of the response nonce
\* included) and was answered is_valid = true by the provider, id being the
\* Steam id of claimed_id and identity; no other request makes a session
\* Authenticated.
C37_AuthenticatedOnlyByVerifiedCallback ==
    /\ [](\A s \in {"s1"} : session[s].tag = "Authenticated" => session[s].id = 7)
    /\ [][/\ \A h \in Handlers :
               /\ C37_Consumes(h)
               /\ C37_Validates(h)
               /\ C37_Authenticates(h)
               /\ (req[h].pc = "idle" /\ req'[h].pc # "idle")
                     => req'[h].state = session[req'[h].sess]
          /\ \A s \in {"s1"} : C37_Stores(s)]_vars

\* The session is Authenticated(7), the nonce its callback consumed is gone
\* from the registry, and a later request has loaded the session
C37_Witness ==
    /\ session["s1"] = Authenticated(7)
    /\ \E h \in Handlers : req[h].pc = "loaded" /\ req[h].state = Authenticated(7)
    /\ \E n \in NonceText : calls[n] = 1 /\ n \notin DOMAIN nonces

\* the callbacks in flight that carry text n and are past its consumption
PastConsumption(n) ==
    {h \in Handlers :
        /\ req[h].kind = "callback"
        /\ req[h].custom_nonce = n
        /\ \/ req[h].pc \in {"consumed", "validated", "authenticated"}
           \/ req[h].generic # "none"
           \/ req[h].state.tag = "Authenticated" /\ req[h].status = "Changed"}

\* C38: one issued nonce lets at most one callback through: of the callbacks
\* that present the same session state and the same custom_nonce, in every
\* interleaving, at most one gets past the consumption of the nonce to
\* validation, re-verification and Authenticated, and every other one is
\* answered 400 and changes nothing.
C38_OneCallbackPerNonce ==
    /\ [](\A n \in NonceText : Cardinality(PastConsumption(n)) <= 1)
    /\ [][\A h \in Handlers :
            /\ (req[h].pc = "loaded" /\ req'[h].pc = "consumed")
                  => /\ calls[req[h].custom_nonce] = 0
                     /\ calls'[req[h].custom_nonce] = 1
            /\ (/\ req[h].pc = "loaded"
                /\ req[h].kind = "callback"
                /\ req[h].state.tag = "Redirected"
                /\ req[h].custom_nonce = req[h].state.nonce
                /\ calls[req[h].custom_nonce] > 0
                /\ req'[h] # req[h])
                  => /\ req'[h].pc = "respond"
                     /\ req'[h].http = 400
                     /\ req'[h].state = req[h].state
                     /\ req'[h].status = "Unchanged"
                     /\ calls' = calls]_vars

\* Two callbacks loaded the same Redirected session and carry its nonce: one
\* is authenticated, the other has been answered 400
C38_Witness ==
    \E h1, h2 \in Handlers :
        /\ req[h1].kind = "callback" /\ req[h2].kind = "callback"
        /\ req[h1].custom_nonce = req[h2].custom_nonce
        /\ req[h1].pc = "authenticated"
        /\ req[h2].pc = "respond"
        /\ req[h2].state = Redirected(req[h1].custom_nonce)
        /\ req[h2].http = 400
        /\ req[h2].nonce_res = "Invalid"

\* the lines parse_key_value_form reads off the drawn body
BodyLines == split(trim(last.text), "\n")

\* line l is one that parse_key_value_form has to refuse: no colon, an
\* unknown key, ns with another value than the OpenID 2.0 namespace, or
\* is_valid with another value than true or false
RefusedLine(l) ==
    \/ \A i \in 1..Len(l) : l[i] # ":"
    \/ /\ l[1] # ":"
       /\ l[1] \notin {"ns", "is_valid"}
    \/ l[1] = ":"
    \/ /\ l[1] = "ns"
       /\ l # <<"ns", ":", "http", ":", "//specs.openid.net/auth/2.0">>
    \/ /\ l[1] = "is_valid"
       /\ l \notin {<<"is_valid", ":", "true">>, <<"is_valid", ":", "false">>}

\* C39: parsing the re-verification response fails closed: a response
\* without the field is_valid gives is_valid = false, a response with an
\* unknown key, a wrong ns value or a non-boolean is_valid is an error, and
\* is_valid = true only comes from a line is_valid:true.
C39_VerifyResponseFailsClosed ==
    last.op = "parse_key_value_form" =>
        /\ (\E i \in 1..Len(BodyLines) : RefusedLine(BodyLines[i])) => ~last.res.ok
        /\ (/\ \A i \in 1..Len(BodyLines) : ~RefusedLine(BodyLines[i])
            /\ \A i \in 1..Len(BodyLines) : BodyLines[i][1] # "is_valid")
              => last.res.ok /\ ~last.res.is_valid
        /\ (last.res.ok /\ last.res.is_valid)
              => \E i \in 1..Len(BodyLines) : BodyLines[i] = <<"is_valid", ":", "true">>

\* a response that only holds the ns line has been parsed: it is accepted
\* with is_valid = false
C39_Witness ==
    /\ last.op = "parse_key_value_form"
    /\ last.text = <<"ns", ":", "http", ":", "//specs.openid.net/auth/2.0", "\n">>
    /\ last.res.ok
    /\ ~last.res.is_valid

\* the text has a line without a colon; the empty piece after a final
\* newline is not a line
HasColonlessLine(text) ==
    \E i \in 1..Len(split(text, "\n")) :
        /\ ~(i = Len(split(text, "\n")) /\ split(text, "\n")[i] = <<>>)
        /\ \A j \in 1..Len(split(text, "\n")[i]) : split(text, "\n")[i][j] # ":"

\* C40: decoding the key-value form rejects every document with a line
\* that has no colon, and no decoded key holds a newline: a colon-less line
\* is not merged into the key of the record after it.
C40_ColonlessLineRejected ==
    /\ (last.op \in {"KeyValues::from_str", "from_str::<HashMap>", "from_str::<Test>"}
        /\ HasColonlessLine(last.text)) => ~last.res.ok
    /\ (last.op \in {"KeyValues::from_str", "from_str::<HashMap>"} /\ last.res.ok)
          => \A k \in DOMAIN last.res.map : \A j \in 1..Len(k) : k[j] # "\n"

====
